---------------------------- MODULE Spec2Model ----------------------------
(***************************************************************************)
(* The validation engine of the team repository: src/src/validate.rs.      *)
(*                                                                         *)
(* A run of validate(data, strict, skip) is a state machine: the three     *)
(* check loops (Local, GitHub, Zulip), the two adapter probes between      *)
(* them and the final sort/dedup/report.  Every check is an operator that  *)
(* computes the messages the Rust function pushes onto `errors`.           *)
(*                                                                         *)
(* Strings are sequences of byte values (UTF-8 code units), so that        *)
(* formatting, starts_with, sorting and deduplication are computed as      *)
(* Vec<String>/str do them.  A literal such as "team `" is written         *)
(* <<116,101,97,109,32,96>>; the format string of every message is quoted  *)
(* in the comment above the operator that builds it.                       *)
(***************************************************************************)
EXTENDS Naturals, Sequences, FiniteSets, TLC

VARIABLES
    data,        \* the Data model handed to validate (read-only)
    strict,      \* validate's `strict` argument
    skip,        \* validate's `skip` argument: a set of check names
    pc,          \* position in validate
    idx,         \* index of the next check of the current tier
    errors,      \* the `errors` vector
    executed,    \* names of the checks whose function was called, in order
    github_auth, \* outcome of github.require_auth(): "unprobed", "ok", "err"
    zulip_auth,  \* outcome of zulip.require_auth(): "unprobed", "ok", "err"
    github_res,  \* what github.usernames(..) returned, as iterated, once called
    zulip_res,   \* what zulip.get_users() returned, once called
    logged,      \* the messages written with error!("validation error: ..")
    result,      \* what validate returned: [kind, error], kind "None" until it returns
    walk         \* the parent walk of validate_subteam_of on one team, step by step

vars == <<data, strict, skip, pc, idx, errors, executed, github_auth,
          zulip_auth, github_res, zulip_res, logged, result, walk>>

---------------------------------------------------------------------------
(* Option<T> *)
None == [some |-> FALSE, v |-> <<>>]
Some(x) == [some |-> TRUE, v |-> x]
(* None of an Option<usize> *)
NoId == [some |-> FALSE, v |-> 0]

(* Result<T, Error> of the Data accessors; e is the error's text *)
Ok(x) == [ok |-> TRUE, v |-> x, e |-> <<>>]
Err(m) == [ok |-> FALSE, v |-> <<>>, e |-> m]
(* Err of a Result whose Ok value is a set *)
ErrSet(m) == [ok |-> FALSE, v |-> {}, e |-> m]

---------------------------------------------------------------------------
(* str and Vec<String> operations *)

Min(a, b) == IF a <= b THEN a ELSE b

(* a < b for str: byte-wise lexicographic, a proper prefix sorts first;
   CommonPrefix is the number of leading bytes the two strings share *)
CommonPrefix(a, b) ==
    Cardinality({i \in 1..Min(Len(a), Len(b)) : SubSeq(a, 1, i) = SubSeq(b, 1, i)})

StrLess(a, b) ==
    LET k == CommonPrefix(a, b) IN
    IF k = Len(a) THEN k < Len(b)
    ELSE IF k = Len(b) THEN FALSE
    ELSE a[k + 1] < b[k + 1]

(* str::starts_with *)
StartsWith(s, prefix) ==
    /\ Len(prefix) <= Len(s)
    /\ \A i \in 1..Len(prefix) : s[i] = prefix[i]

(* str::contains(char) *)
ContainsChar(s, c) == \E i \in 1..Len(s) : s[i] = c

(* concatenation of a sequence of sequences *)
RECURSIVE Concat(_)
Concat(ss) == IF ss = <<>> THEN <<>> ELSE Head(ss) \o Concat(Tail(ss))

(* [T].join(sep) *)
RECURSIVE Join(_, _)
Join(ss, sep) ==
    IF ss = <<>> THEN <<>>
    ELSE IF Len(ss) = 1 THEN ss[1]
    ELSE ss[1] \o sep \o Join(Tail(ss), sep)

(* Display of an unsigned integer: its decimal digits *)
RECURSIVE DecStr(_)
DecStr(n) ==
    IF n < 10 THEN <<48 + n>> ELSE DecStr(n \div 10) \o <<48 + (n % 10)>>

(* slice.contains *)
SeqContains(s, x) == \E i \in 1..Len(s) : s[i] = x

Range(s) == {s[i] : i \in 1..Len(s)}

(* insertion of x into an ascending sequence, after its equals *)
RECURSIVE InsertSorted(_, _)
InsertSorted(s, x) ==
    IF s = <<>> THEN <<x>>
    ELSE IF StrLess(x, Head(s)) THEN <<x>> \o s
    ELSE <<Head(s)>> \o InsertSorted(Tail(s), x)

(* Vec<String>::sort(): ascending, stable *)
RECURSIVE SortStrings(_)
SortStrings(s) ==
    IF s = <<>> THEN <<>>
    ELSE InsertSorted(SortStrings(SubSeq(s, 1, Len(s) - 1)), s[Len(s)])

(* Vec::dedup_by(|a, b| a == b): drops an element equal to the one kept
   just before it *)
RECURSIVE Dedup(_)
Dedup(s) ==
    IF Len(s) <= 1 THEN s
    ELSE LET d == Dedup(SubSeq(s, 1, Len(s) - 1))
         IN IF d[Len(d)] = s[Len(s)] THEN d ELSE Append(d, s[Len(s)])

RECURSIVE Reverse(_)
Reverse(s) == IF s = <<>> THEN <<>> ELSE Append(Reverse(Tail(s)), Head(s))

RECURSIVE SetToSortedSeq(_)
SetToSortedSeq(S) ==
    IF S = {} THEN <<>>
    ELSE LET m == CHOOSE x \in S : \A y \in S : y = x \/ StrLess(x, y)
         IN <<m>> \o SetToSortedSeq(S \ {m})

RECURSIVE Fact(_)
Fact(n) == IF n <= 1 THEN 1 ELSE n * Fact(n - 1)

(* the k-th arrangement of the sequence s, k in 0..Fact(Len(s))-1: 0 is s
   itself, Fact(Len(s))-1 its reverse *)
RECURSIVE NthPerm(_, _)
NthPerm(s, k) ==
    IF Len(s) <= 1 THEN s
    ELSE LET f == Fact(Len(s) - 1)
             i == (k \div f) + 1
         IN <<s[i]>> \o NthPerm(SubSeq(s, 1, i - 1) \o SubSeq(s, i + 1, Len(s)),
                                k % f)

(* Iteration order of a std HashSet/HashMap over strings.  The order is
   unspecified: every set is built with its own RandomState keys, so a set
   iterates in any arrangement of its elements, and two sets of one run,
   equal or not, iterate independently of each other.  k stands for the
   keys of the set: every arrangement is the order of some k. *)
HashIter(S, k) == NthPerm(SetToSortedSeq(S), k % Fact(Cardinality(S)))


---------------------------------------------------------------------------
(* Bounds of the model *)

(* the chat directory knows user ids among 1..MaxZulipId *)
MaxZulipId == 2

(* the hierarchy runs have MaxTeams teams *)
MaxTeams == 2

---------------------------------------------------------------------------
(* The Data model's query surface (crate::data, crate::schema).  A Team is
   a record
     [name, kind, subteam_of : Option<str>, members : Result<set of str>,
      explicit_members : Seq(str), leads : set of str, alumni : Seq(str),
      raw_lists : Seq([address, extra_people, extra_teams]),
      permissions, leads_permissions : Permissions,
      rfcbot : Option<[label, exclude_members]>,
      github_teams : Seq([org, name]), zulip_stream : Option<str>,
      discord_roles : BOOLEAN, raw_zulip_groups : Seq([name,
      includes_team_members, extra_people])]
   a Person is [github, github_id, email, zulip_id, discord_id, permissions]
   and a Permissions value is [direct, indirect, validate]. *)

(* Data::teams(): the active teams *)
teams(d) == d.teams

(* Data::archived_teams() *)
archived_teams(d) == d.archived_teams

(* Data::people() *)
people(d) == d.people

(* Data::repos() *)
repos(d) == d.repos

(* Data::team(name) -> Option<&Team>: lookup among the active teams *)
team(d, name) ==
    IF \E i \in 1..Len(d.teams) : d.teams[i].name = name
    THEN Some(d.teams[CHOOSE i \in 1..Len(d.teams) : d.teams[i].name = name])
    ELSE None

(* Data::person(name) -> Option<&Person> *)
person(d, name) ==
    IF \E i \in 1..Len(d.people) : d.people[i].github = name
    THEN Some(d.people[CHOOSE i \in 1..Len(d.people) : d.people[i].github = name])
    ELSE None

(* Team::members(data) -> Result<HashSet<&str>, Error>: the effective
   membership, resolved by the data model *)
members(t) == t.members

(* Team::is_alumni_team() *)
is_alumni_team(t) == t.name = <<97,108,117,109,110,105>>

(* Data::active_members(): the union of the effective members of every
   team but the alumni team; the first resolution failure is returned *)
active_members(d) ==
    LET ts == SelectSeq(d.teams, LAMBDA t : ~is_alumni_team(t))
        bad == {i \in 1..Len(ts) : ~members(ts[i]).ok}
    IN IF bad # {}
       THEN ErrSet(members(ts[CHOOSE i \in bad : \A j \in bad : i <= j]).e)
       ELSE Ok(UNION {members(ts[i]).v : i \in 1..Len(ts)})

(* Permissions::has_directly(permission) *)
has_directly(p, permission) == permission \in p.direct

(* Permissions::has(permission): directly or implied by another grant *)
has(p, permission) == permission \in (p.direct \cup p.indirect)

(* Permissions::has_any() *)
has_any(p) == p.direct # {}

(* Permissions::validate(what, config) -> Result<(), Error>: the outcome is
   part of the data *)
permissions_validate(p) == p.validate

(* Permissions::available(config) -> Vec<String> *)
available(d) == d.config.permissions

(* Team::lists(data) -> Result<Lists, Error>: needs the team's members *)
lists(t) == IF members(t).ok THEN Ok(t.raw_lists) ELSE Err(members(t).e)

(* Team::github_teams(data) -> Result<Vec<GitHubTeam>, Error> *)
github_teams(t) == IF members(t).ok THEN Ok(t.github_teams) ELSE Err(members(t).e)

(* Team::zulip_groups(data) -> Result<Vec<ZulipGroup>, Error> *)
zulip_groups(t) == IF members(t).ok THEN Ok(t.raw_zulip_groups) ELSE Err(members(t).e)

(* Team::discord_ids(data) -> Result<Vec<usize>, Error>: the discord ids of
   the members that are people and have one *)
discord_ids(d, t) ==
    IF ~members(t).ok THEN ErrSet(members(t).e)
    ELSE Ok({m \in members(t).v :
                person(d, m).some /\ person(d, m).v.discord_id.some})

(* Data::github_teams() -> HashSet<(String, String)>: every (org, name) a
   team maps to *)
data_github_teams(d) ==
    UNION {{<<g.org, g.name>> : g \in Range(github_teams(d.teams[i]).v)} :
               i \in {j \in 1..Len(d.teams) : github_teams(d.teams[j]).ok}}

(* Data::zulip_groups() -> Result<map name -> ZulipGroup, Error> *)
data_zulip_groups(d) == d.zulip_groups

(* Display of schema::TeamKind *)
KindDisplay(k) ==
    CASE k = "Team" -> <<116,101,97,109>>
      [] k = "WorkingGroup" -> <<119,111,114,107,105,110,103,32,103,114,111,117,112>>
      [] k = "ProjectGroup" -> <<112,114,111,106,101,99,116,32,103,114,111,117,112>>
      [] k = "MarkerTeam" -> <<109,97,114,107,101,114,32,116,101,97,109>>

---------------------------------------------------------------------------
(* wrapper(iter, errors, func): func is called on every item; what it
   pushes itself and the text of the Err it returns are appended, and the
   loop goes on.  F(item) is the sequence of messages one call adds. *)
wrapper(items, F(_)) == Concat([i \in 1..Len(items) |-> F(items[i])])

(* The messages of a closure that returns r: Result<(), Error> *)
Bail(r) == IF r.ok THEN <<>> ELSE <<r.e>>

(* A check's outcome: the messages it appended and whether it panicked *)
Done(errs) == [errs |-> errs, panic |-> FALSE]
Panic(errs) == [errs |-> errs, panic |-> TRUE]

---------------------------------------------------------------------------
(* validate_name_prefixes *)

(* variant: the prefix rule without its exceptions *)
ensure_prefix_always(t, kind, prefix, exceptions) ==
    IF t.kind = kind /\ ~StartsWith(t.name, prefix)
    THEN Err(KindDisplay(kind) \o <<32,96>> \o t.name
             \o <<96,39,115,32,110,97,109,101,32,100,111,101,115,110,39,116,32,115,116,97,114,116,32,119,105,116,104,32,96>> \o prefix \o <<96>>)
    ELSE IF t.kind # kind /\ StartsWith(t.name, prefix)
    THEN Err(KindDisplay(t.kind) \o <<32,96>> \o t.name \o <<96,32,115,101,101,109,115,32,108,105,107,101,32,97,32>>
             \o KindDisplay(kind) \o <<32,40,115,105,110,99,101,32,105,116,32,104,97,115,32,116,104,101,32,96>> \o prefix
             \o <<96,32,112,114,101,102,105,120,41>>)
    ELSE Ok(<<>>)

\* "{} `{}`'s name doesn't start with `{}`"
\* "{} `{}` seems like a {} (since it has the `{}` prefix)"
ensure_prefix(t, kind, prefix, exceptions) ==
    IF t.name \in exceptions THEN Ok(<<>>)
    ELSE IF t.kind = kind /\ ~StartsWith(t.name, prefix)
    THEN Err(KindDisplay(kind) \o <<32,96>> \o t.name
             \o <<96,39,115,32,110,97,109,101,32,100,111,101,115,110,39,116,32,115,116,97,114,116,32,119,105,116,104,32,96>> \o prefix \o <<96>>)
    ELSE IF t.kind # kind /\ StartsWith(t.name, prefix)
    THEN Err(KindDisplay(t.kind) \o <<32,96>> \o t.name \o <<96,32,115,101,101,109,115,32,108,105,107,101,32,97,32>>
             \o KindDisplay(kind) \o <<32,40,115,105,110,99,101,32,105,116,32,104,97,115,32,116,104,101,32,96>> \o prefix
             \o <<96,32,112,114,101,102,105,120,41>>)
    ELSE Ok(<<>>)

name_prefixes_team(t) ==
    LET r1 == ensure_prefix(t, "WorkingGroup", <<119,103,45>>, {<<119,103,45,108,101,97,100,115>>})
    IN IF ~r1.ok THEN r1
       ELSE ensure_prefix(t, "ProjectGroup", <<112,114,111,106,101,99,116,45>>,
                          {<<112,114,111,106,101,99,116,45,103,114,111,117,112,45,108,101,97,100,115>>})

validate_name_prefixes(d) ==
    Done(wrapper(teams(d), LAMBDA t : Bail(name_prefixes_team(t))))

---------------------------------------------------------------------------
(* validate_subteam_of *)

\* "team `{parent}` is a subteam of itself: {} => {parent}"
CycleMsg(visited, parent) ==
    <<116,101,97,109,32,96>> \o parent \o <<96,32,105,115,32,97,32,115,117,98,116,101,97,109,32,111,102,32,105,116,115,101,108,102,58,32>>
    \o Join(visited, <<32,61,62,32>>) \o <<32,61,62,32>> \o parent

\* "the parent of team `{}` doesn't exist: `{}`"
DanglingMsg(name, parent) ==
    <<116,104,101,32,112,97,114,101,110,116,32,111,102,32,116,101,97,109,32,96>> \o name \o <<96,32,100,111,101,115,110,39,116,32,101,120,105,115,116,58,32,96>> \o parent \o <<96>>

\* "{} `{}` can't be a subteam of a subteam (`{}`)"
NestingMsg(kind, name, parent) ==
    KindDisplay(kind) \o <<32,96>> \o name
    \o <<96,32,99,97,110,39,116,32,98,101,32,97,32,115,117,98,116,101,97,109,32,111,102,32,97,32,115,117,98,116,101,97,109,32,40,96>> \o parent \o <<96,41>>

(* The while loop of the closure, from `t` with the names visited so far *)
(* variant: the walk looks for the parent among the teams visited before
   the current one, so a team is found to repeat one step later *)
RECURSIVE subteam_walk_late(_, _, _)
subteam_walk_late(d, t, visited) ==
    IF ~t.subteam_of.some THEN Ok(<<>>)
    ELSE LET parent == t.subteam_of.v
             vis == Append(visited, t.name)
         IN IF SeqContains(visited, parent) THEN Err(CycleMsg(vis, parent))
            ELSE IF ~team(d, parent).some
            THEN Err(DanglingMsg(t.name, parent))
            ELSE IF t.kind # "Team" /\ team(d, parent).v.subteam_of.some
            THEN Err(NestingMsg(t.kind, t.name, team(d, parent).v.name))
            ELSE subteam_walk_late(d, team(d, parent).v, vis)

(* variant: the walk without the nesting rule *)
RECURSIVE subteam_walk_flat(_, _, _)
subteam_walk_flat(d, t, visited) ==
    IF ~t.subteam_of.some THEN Ok(<<>>)
    ELSE LET parent == t.subteam_of.v
             vis == Append(visited, t.name)
         IN IF SeqContains(vis, parent) THEN Err(CycleMsg(vis, parent))
            ELSE IF ~team(d, parent).some
            THEN Err(DanglingMsg(t.name, parent))
            ELSE subteam_walk_flat(d, team(d, parent).v, vis)

RECURSIVE subteam_walk(_, _, _)
subteam_walk(d, t, visited) ==
    IF ~t.subteam_of.some THEN Ok(<<>>)
    ELSE LET parent == t.subteam_of.v
             vis == Append(visited, t.name)
         IN IF SeqContains(vis, parent) THEN Err(CycleMsg(vis, parent))
            ELSE IF ~team(d, parent).some
            THEN Err(DanglingMsg(t.name, parent))
            ELSE IF t.kind # "Team" /\ team(d, parent).v.subteam_of.some
            THEN Err(NestingMsg(t.kind, t.name, team(d, parent).v.name))
            ELSE subteam_walk(d, team(d, parent).v, vis)

validate_subteam_of(d) ==
    Done(wrapper(teams(d), LAMBDA t : Bail(subteam_walk(d, t, <<>>))))

---------------------------------------------------------------------------
(* validate_team_leads *)

\* "`{}` leads team `{}`, but is not a member of it"
team_leads_team(t, h) ==
    IF ~members(t).ok THEN <<members(t).e>>
    ELSE wrapper(HashIter(t.leads, h[<<"team", t.name>>]), LAMBDA lead :
            IF lead \notin members(t).v
            THEN <<<<96>> \o lead \o <<96,32,108,101,97,100,115,32,116,101,97,109,32,96>> \o t.name
                   \o <<96,44,32,98,117,116,32,105,115,32,110,111,116,32,97,32,109,101,109,98,101,114,32,111,102,32,105,116>>>>
            ELSE <<>>)

validate_team_leads(d, h) ==
    Done(wrapper(teams(d), LAMBDA t : team_leads_team(t, h)))

---------------------------------------------------------------------------
(* validate_team_members *)

\* "person `{}` is member of team `{}` but doesn't exist"
team_members_team(d, t, h) ==
    IF ~members(t).ok THEN <<members(t).e>>
    ELSE wrapper(HashIter(members(t).v, h[<<"team", t.name>>]), LAMBDA member :
            IF ~person(d, member).some
            THEN <<<<112,101,114,115,111,110,32,96>> \o member \o <<96,32,105,115,32,109,101,109,98,101,114,32,111,102,32,116,101,97,109,32,96>>
                   \o t.name \o <<96,32,98,117,116,32,100,111,101,115,110,39,116,32,101,120,105,115,116>>>>
            ELSE <<>>)

validate_team_members(d, h) ==
    Done(wrapper(teams(d), LAMBDA t : team_members_team(d, t, h)))

---------------------------------------------------------------------------
(* validate_alumni *)

\* "alumni team includes active member '{}'"
AlumniActiveMsg(member) ==
    <<97,108,117,109,110,105,32,116,101,97,109,32,105,110,99,108,117,100,101,115,32,97,99,116,105,118,101,32,109,101,109,98,101,114,32,39>> \o member \o <<39>>

\* "alumni team explicitly includes member '{}' who was specified as an
\*  alumni already in '{}'"
AlumniExplicitMsg(member, t) ==
    <<97,108,117,109,110,105,32,116,101,97,109,32,101,120,112,108,105,99,105,116,108,121,32,105,110,99,108,117,100,101,115,32,109,101,109,98,101,114,32,39>> \o member
    \o <<39,32,119,104,111,32,119,97,115,32,115,112,101,99,105,102,105,101,100,32,97,115,32,97,110,32,97,108,117,109,110,105,32,97,108,114,101,97,100,121,32,105,110,32,39>> \o t \o <<39>>

(* data.teams().filter(not alumni).flat_map(|t| t.alumni() ...): the
   (team, member) pairs in iteration order *)
alumni_pairs(d) ==
    Concat([i \in 1..Len(d.teams) |->
        IF d.teams[i].name = <<97,108,117,109,110,105>> THEN <<>>
        ELSE [j \in 1..Len(d.teams[i].alumni) |->
                 <<d.teams[i].name, d.teams[i].alumni[j]>>]])

(* the second wrapper: explicit_members.remove(member) succeeds once *)
RECURSIVE alumni_explicit(_, _)
alumni_explicit(pairs, explicit) ==
    IF pairs = <<>> THEN <<>>
    ELSE LET p == Head(pairs)
         IN IF p[2] \in explicit
            THEN <<AlumniExplicitMsg(p[2], p[1])>>
                 \o alumni_explicit(Tail(pairs), explicit \ {p[2]})
            ELSE alumni_explicit(Tail(pairs), explicit)

(* variant: only the explicit members of the alumni team are compared
   with the active members *)
alumni_team_check_explicit(d, t, active, h) ==
    IF ~members(t).ok THEN <<members(t).e>>
    ELSE wrapper(t.explicit_members, LAMBDA member :
             IF member \in active THEN <<AlumniActiveMsg(member)>> ELSE <<>>)
         \o alumni_explicit(alumni_pairs(d), Range(t.explicit_members))

alumni_team_check(d, t, active, h) ==
    IF ~members(t).ok THEN <<members(t).e>>
    ELSE wrapper(HashIter(members(t).v, h[<<"team", t.name>>]), LAMBDA member :
             IF member \in active THEN <<AlumniActiveMsg(member)>> ELSE <<>>)
         \o alumni_explicit(alumni_pairs(d), Range(t.explicit_members))

validate_alumni(d, h) ==
    IF ~active_members(d).ok THEN Done(<<active_members(d).e>>)
    ELSE IF ~team(d, <<97,108,117,109,110,105>>).some THEN Done(<<>>)
    ELSE Done(alumni_team_check(d, team(d, <<97,108,117,109,110,105>>).v, active_members(d).v, h))

---------------------------------------------------------------------------
(* validate_inactive_members *)

\* "person `{}` is not a member of any team (active or archived), has no
\*  permissions, and is not an individual contributor to any repo"
OrphanMsg(p) ==
    <<112,101,114,115,111,110,32,96>> \o p \o <<96,32,105,115,32,110,111,116,32,97,32,109,101,109,98,101,114,32,111,102,32,97,110,121,32,116,101,97,109,32,40,97,99,116,105,118,101,32,111,114,32,97,114,99,104,105,118,101,100,41,44,32,104,97,115,32,110,111,32,112,101,114,109,105,115,115,105,111,110,115,44,32,97,110,100,32,105,115,32,110,111,116,32,97,110,32,105,110,100,105,118,105,100,117,97,108,32,99,111,110,116,114,105,98,117,116,111,114,32,116,111,32,97,110,121,32,114,101,112,111>>

(* what one team adds to referenced_members; nothing when its members
   cannot be resolved (the closure returns at the `?`) *)
referenced_by(t) ==
    IF ~members(t).ok THEN {}
    ELSE members(t).v \cup Range(t.alumni)
         \cup UNION {Range(t.raw_lists[i].extra_people) : i \in 1..Len(t.raw_lists)}

(* variant: only the active teams count as references *)
referenced_members_active(d) ==
    LET ts == teams(d)
    IN UNION {referenced_by(ts[i]) : i \in 1..Len(ts)}

referenced_members(d) ==
    LET ts == teams(d) \o archived_teams(d)
    IN UNION {referenced_by(ts[i]) : i \in 1..Len(ts)}

all_members(d) == {d.people[i].github : i \in 1..Len(d.people)}

all_ics(d) == UNION {d.repos[i].individuals : i \in 1..Len(d.repos)}

validate_inactive_members(d, h) ==
    LET ts == teams(d) \o archived_teams(d)
        first == wrapper(ts, LAMBDA t : Bail(members(t)))
        rest == HashIter(all_members(d) \ referenced_members(d),
                        h[<<"people", <<>>>>])
        second == wrapper(rest, LAMBDA p :
            IF ~has_any(person(d, p).v.permissions) /\ p \notin all_ics(d)
            THEN <<OrphanMsg(p)>> ELSE <<>>)
    IN IF \E i \in 1..Len(rest) : ~person(d, rest[i]).some
       THEN Panic(first)
       ELSE Done(first \o second)

---------------------------------------------------------------------------
(* validate_list_email_addresses *)

\* "person `{}` is a member of a mailing list but has no email address"
list_email_team(d, t, h) ==
    IF ~lists(t).ok THEN <<lists(t).e>>
    ELSE IF lists(t).v = <<>> THEN <<>>
    ELSE wrapper(HashIter(members(t).v, h[<<"team", t.name>>]), LAMBDA member :
            IF person(d, member).some /\ person(d, member).v.email.kind = "Missing"
            THEN <<<<112,101,114,115,111,110,32,96>> \o person(d, member).v.github
                   \o <<96,32,105,115,32,97,32,109,101,109,98,101,114,32,111,102,32,97,32,109,97,105,108,105,110,103,32,108,105,115,116,32,98,117,116,32,104,97,115,32,110,111,32,101,109,97,105,108,32,97,100,100,114,101,115,115>>>>
            ELSE <<>>)

validate_list_email_addresses(d, h) ==
    Done(wrapper(teams(d), LAMBDA t : list_email_team(d, t, h)))

---------------------------------------------------------------------------
(* validate_list_extra_people, validate_list_extra_teams *)

(* `for x in xs { if absent(x) { bail!(..) } }`: the first absent x *)
FirstAbsent(xs, Present(_)) ==
    IF \E i \in 1..Len(xs) : ~Present(xs[i])
    THEN Some(xs[CHOOSE i \in 1..Len(xs) :
                    /\ ~Present(xs[i])
                    /\ \A j \in 1..(i - 1) : Present(xs[j])])
    ELSE None

\* "person `{}` does not exist (in list `{}`)"
list_extra_people_list(d, l) ==
    LET a == FirstAbsent(l.extra_people, LAMBDA p : person(d, p).some)
    IN IF a.some
       THEN <<<<112,101,114,115,111,110,32,96>> \o a.v \o <<96,32,100,111,101,115,32,110,111,116,32,101,120,105,115,116,32,40,105,110,32,108,105,115,116,32,96>>
              \o l.address \o <<96,41>>>>
       ELSE <<>>

validate_list_extra_people(d) ==
    Done(wrapper(teams(d), LAMBDA t :
            wrapper(t.raw_lists, LAMBDA l : list_extra_people_list(d, l))))

\* "team `{}` does not exist (in list `{}`)"
list_extra_teams_list(d, l) ==
    LET a == FirstAbsent(l.extra_teams, LAMBDA n : team(d, n).some)
    IN IF a.some
       THEN <<<<116,101,97,109,32,96>> \o a.v \o <<96,32,100,111,101,115,32,110,111,116,32,101,120,105,115,116,32,40,105,110,32,108,105,115,116,32,96>>
              \o l.address \o <<96,41>>>>
       ELSE <<>>

validate_list_extra_teams(d) ==
    Done(wrapper(teams(d), LAMBDA t :
            wrapper(t.raw_lists, LAMBDA l : list_extra_teams_list(d, l))))

---------------------------------------------------------------------------
(* validate_list_addresses *)

(* the class [a-zA-Z0-9_\.-] of the address pattern, on one byte: a byte of
   a character outside ASCII is never in it *)
IsAddressChar(c) ==
    c \in 48..57 \/ c \in 65..90 \/ c \in 97..122 \/ c = 95 \/ c = 46 \/ c = 45

(* ^[a-zA-Z0-9_\.-]+@([a-zA-Z0-9_\.-]+)$ : the capture group, if the
   address matches *)
email_re_captures(address) ==
    LET ats == {i \in 1..Len(address) : address[i] = 64}
    IN IF /\ Cardinality(ats) = 1
          /\ \A i \in 1..Len(address) : i \in ats \/ IsAddressChar(address[i])
          /\ 1 \notin ats
          /\ Len(address) \notin ats
       THEN Some(SubSeq(address, (CHOOSE i \in ats : TRUE) + 1, Len(address)))
       ELSE None

\* "list address on a domain we don't own: `{}`"
\* "invalid list address: `{}`"
list_addresses_list(d, l) ==
    LET c == email_re_captures(l.address)
    IN IF c.some
       THEN IF c.v \notin d.config.allowed_mailing_lists_domains
            THEN <<<<108,105,115,116,32,97,100,100,114,101,115,115,32,111,110,32,97,32,100,111,109,97,105,110,32,119,101,32,100,111,110,39,116,32,111,119,110,58,32,96>> \o l.address \o <<96>>>>
            ELSE <<>>
       ELSE <<<<105,110,118,97,108,105,100,32,108,105,115,116,32,97,100,100,114,101,115,115,58,32,96>> \o l.address \o <<96>>>>

validate_list_addresses(d) ==
    Done(wrapper(teams(d), LAMBDA t :
            wrapper(t.raw_lists, LAMBDA l : list_addresses_list(d, l))))

---------------------------------------------------------------------------
(* validate_people_addresses *)

\* "invalid email address of `{}`: {}"
validate_people_addresses(d) ==
    Done(wrapper(people(d), LAMBDA p :
            IF p.email.kind = "Present" /\ ~ContainsChar(p.email.addr, 64)
            THEN <<<<105,110,118,97,108,105,100,32,101,109,97,105,108,32,97,100,100,114,101,115,115,32,111,102,32,96>> \o p.github \o <<96,58,32>>
                   \o p.email.addr>>
            ELSE <<>>))

---------------------------------------------------------------------------
(* validate_duplicate_permissions *)

\* "user `{}` has the permission `{}` both explicitly and through the `{}` team"
DuplicatePermissionMsg(member, permission, t) ==
    <<117,115,101,114,32,96>> \o member \o <<96,32,104,97,115,32,116,104,101,32,112,101,114,109,105,115,115,105,111,110,32,96>> \o permission
    \o <<96,32,98,111,116,104,32,101,120,112,108,105,99,105,116,108,121,32,97,110,100,32,116,104,114,111,117,103,104,32,116,104,101,32,96>> \o t \o <<96,32,116,101,97,109>>

(* the closure on one member: the loop over the available permissions
   bails at the first one the team and the person both hold *)
duplicate_permissions_member(d, t, member) ==
    IF ~person(d, member).some THEN <<>>
    ELSE LET avail == available(d)
             dup == {i \in 1..Len(avail) :
                        /\ has(t.permissions, avail[i])
                        /\ has_directly(person(d, member).v.permissions, avail[i])}
         IN IF dup = {} THEN <<>>
            ELSE <<DuplicatePermissionMsg(member,
                      avail[CHOOSE i \in dup : \A j \in dup : i <= j], t.name)>>

duplicate_permissions_team(d, t, h) ==
    IF ~members(t).ok THEN <<members(t).e>>
    ELSE wrapper(HashIter(members(t).v, h[<<"team", t.name>>]),
                 LAMBDA member : duplicate_permissions_member(d, t, member))

validate_duplicate_permissions(d, h) ==
    Done(wrapper(teams(d), LAMBDA t : duplicate_permissions_team(d, t, h)))

---------------------------------------------------------------------------
(* validate_permissions *)

permissions_team(t) ==
    IF ~permissions_validate(t.permissions).ok
    THEN <<permissions_validate(t.permissions).e>>
    ELSE Bail(permissions_validate(t.leads_permissions))

validate_permissions(d) ==
    Done(wrapper(teams(d), LAMBDA t : permissions_team(t))
         \o wrapper(people(d), LAMBDA p : Bail(permissions_validate(p.permissions))))

---------------------------------------------------------------------------
(* validate_rfcbot_labels *)

\* "duplicate rfcbot label: {}"
RECURSIVE rfcbot_labels_loop(_, _)
rfcbot_labels_loop(ts, labels) ==
    IF ts = <<>> THEN <<>>
    ELSE LET t == Head(ts)
         IN IF ~t.rfcbot.some THEN rfcbot_labels_loop(Tail(ts), labels)
            ELSE IF t.rfcbot.v.label \in labels
            THEN <<<<100,117,112,108,105,99,97,116,101,32,114,102,99,98,111,116,32,108,97,98,101,108,58,32>> \o t.rfcbot.v.label>>
                 \o rfcbot_labels_loop(Tail(ts), labels)
            ELSE rfcbot_labels_loop(Tail(ts), labels \cup {t.rfcbot.v.label})

validate_rfcbot_labels(d) == Done(rfcbot_labels_loop(teams(d), {}))

---------------------------------------------------------------------------
(* validate_rfcbot_exclude_members *)

\* "duplicate member in `{}` rfcbot.exclude-members: {}"
\* "person `{}` is not a member of team `{}` (in rfcbot.exclude-members)"
RECURSIVE rfcbot_exclude_loop(_, _, _)
rfcbot_exclude_loop(t, ms, exclude) ==
    IF ms = <<>> THEN <<>>
    ELSE LET m == Head(ms)
         IN (IF m \in exclude
             THEN <<<<100,117,112,108,105,99,97,116,101,32,109,101,109,98,101,114,32,105,110,32,96>> \o t.name
                    \o <<96,32,114,102,99,98,111,116,46,101,120,99,108,117,100,101,45,109,101,109,98,101,114,115,58,32>> \o m>>
             ELSE IF m \notin members(t).v
             THEN <<<<112,101,114,115,111,110,32,96>> \o m \o <<96,32,105,115,32,110,111,116,32,97,32,109,101,109,98,101,114,32,111,102,32,116,101,97,109,32,96>>
                    \o t.name \o <<96,32,40,105,110,32,114,102,99,98,111,116,46,101,120,99,108,117,100,101,45,109,101,109,98,101,114,115,41>>>>
             ELSE <<>>)
            \o rfcbot_exclude_loop(t, Tail(ms), exclude \cup {m})

rfcbot_exclude_team(t) ==
    IF ~t.rfcbot.some THEN <<>>
    ELSE IF ~members(t).ok THEN <<members(t).e>>
    ELSE rfcbot_exclude_loop(t, t.rfcbot.v.exclude_members, {})

validate_rfcbot_exclude_members(d) ==
    Done(wrapper(teams(d), LAMBDA t : rfcbot_exclude_team(t)))

---------------------------------------------------------------------------
(* validate_team_names *)

(* str::chars(): the code points of a UTF-8 string, one per byte that is
   not a continuation byte (10xxxxxx) *)
chars(s) ==
    LET at == SelectSeq([i \in 1..Len(s) |-> i], LAMBDA i : s[i] \notin 128..191)
        tail(i, n) == s[i + n] - 128
        point(i) ==
            IF s[i] < 128 THEN s[i]
            ELSE IF s[i] < 224 THEN (s[i] - 192) * 64 + tail(i, 1)
            ELSE IF s[i] < 240
            THEN (s[i] - 224) * 4096 + tail(i, 1) * 64 + tail(i, 2)
            ELSE (s[i] - 240) * 262144 + tail(i, 1) * 4096 + tail(i, 2) * 64
                 + tail(i, 3)
    IN [k \in 1..Len(at) |-> point(at[k])]

(* Code points above ASCII that char::is_alphanumeric accepts, as ranges
   <<first, last>>: those with the property Alphabetic or a numeric general
   category (Nd, Nl, No) in Unicode 14, which later versions keep, and
   ranges that later versions are known to add. *)
AlphanumericRanges ==
    {<<170,170>>,<<178,179>>,<<181,181>>,<<185,186>>,<<188,190>>,<<192,214>>,
     <<216,246>>,<<248,705>>,<<710,721>>,<<736,740>>,<<748,748>>,<<750,750>>,
     <<837,837>>,<<867,884>>,<<886,887>>,<<890,893>>,<<895,895>>,<<902,902>>,
     <<904,906>>,<<908,908>>,<<910,929>>,<<931,1013>>,<<1015,1153>>,
     <<1162,1327>>,<<1329,1366>>,<<1369,1369>>,<<1376,1416>>,<<1456,1469>>,
     <<1471,1471>>,<<1473,1474>>,<<1476,1477>>,<<1479,1479>>,<<1488,1514>>,
     <<1519,1522>>,<<1552,1562>>,<<1568,1623>>,<<1625,1641>>,<<1646,1747>>,
     <<1749,1756>>,<<1761,1768>>,<<1773,1788>>,<<1791,1791>>,<<1808,1855>>,
     <<1869,1969>>,<<1984,2026>>,<<2036,2037>>,<<2042,2042>>,<<2048,2071>>,
     <<2074,2092>>,<<2112,2136>>,<<2144,2154>>,<<2160,2183>>,<<2185,2191>>,
     <<2199,2199>>,<<2208,2249>>,<<2260,2271>>,<<2275,2281>>,<<2288,2363>>,
     <<2365,2380>>,<<2382,2384>>,<<2389,2403>>,<<2406,2415>>,<<2417,2435>>,
     <<2437,2444>>,<<2447,2448>>,<<2451,2472>>,<<2474,2480>>,<<2482,2482>>,
     <<2486,2489>>,<<2493,2500>>,<<2503,2504>>,<<2507,2508>>,<<2510,2510>>,
     <<2519,2519>>,<<2524,2525>>,<<2527,2531>>,<<2534,2545>>,<<2548,2553>>,
     <<2556,2556>>,<<2561,2563>>,<<2565,2570>>,<<2575,2576>>,<<2579,2600>>,
     <<2602,2608>>,<<2610,2611>>,<<2613,2614>>,<<2616,2617>>,<<2622,2626>>,
     <<2631,2632>>,<<2635,2636>>,<<2641,2641>>,<<2649,2652>>,<<2654,2654>>,
     <<2662,2677>>,<<2689,2691>>,<<2693,2701>>,<<2703,2705>>,<<2707,2728>>,
     <<2730,2736>>,<<2738,2739>>,<<2741,2745>>,<<2749,2757>>,<<2759,2761>>,
     <<2763,2764>>,<<2768,2768>>,<<2784,2787>>,<<2790,2799>>,<<2809,2812>>,
     <<2817,2819>>,<<2821,2828>>,<<2831,2832>>,<<2835,2856>>,<<2858,2864>>,
     <<2866,2867>>,<<2869,2873>>,<<2877,2884>>,<<2887,2888>>,<<2891,2892>>,
     <<2902,2903>>,<<2908,2909>>,<<2911,2915>>,<<2918,2927>>,<<2929,2935>>,
     <<2946,2947>>,<<2949,2954>>,<<2958,2960>>,<<2962,2965>>,<<2969,2970>>,
     <<2972,2972>>,<<2974,2975>>,<<2979,2980>>,<<2984,2986>>,<<2990,3001>>,
     <<3006,3010>>,<<3014,3016>>,<<3018,3020>>,<<3024,3024>>,<<3031,3031>>,
     <<3046,3058>>,<<3072,3084>>,<<3086,3088>>,<<3090,3112>>,<<3114,3129>>,
     <<3133,3140>>,<<3142,3144>>,<<3146,3148>>,<<3157,3158>>,<<3160,3162>>,
     <<3164,3165>>,<<3168,3171>>,<<3174,3183>>,<<3192,3198>>,<<3200,3203>>,
     <<3205,3212>>,<<3214,3216>>,<<3218,3240>>,<<3242,3251>>,<<3253,3257>>,
     <<3261,3268>>,<<3270,3272>>,<<3274,3276>>,<<3285,3286>>,<<3292,3294>>,
     <<3296,3299>>,<<3302,3311>>,<<3313,3315>>,<<3328,3340>>,<<3342,3344>>,
     <<3346,3386>>,<<3389,3396>>,<<3398,3400>>,<<3402,3404>>,<<3406,3406>>,
     <<3412,3427>>,<<3430,3448>>,<<3450,3455>>,<<3457,3459>>,<<3461,3478>>,
     <<3482,3505>>,<<3507,3515>>,<<3517,3517>>,<<3520,3526>>,<<3535,3540>>,
     <<3542,3542>>,<<3544,3551>>,<<3558,3567>>,<<3570,3571>>,<<3585,3642>>,
     <<3648,3654>>,<<3661,3661>>,<<3664,3673>>,<<3713,3714>>,<<3716,3716>>,
     <<3718,3722>>,<<3724,3747>>,<<3749,3749>>,<<3751,3769>>,<<3771,3773>>,
     <<3776,3780>>,<<3782,3782>>,<<3789,3789>>,<<3792,3801>>,<<3804,3807>>,
     <<3840,3840>>,<<3872,3891>>,<<3904,3911>>,<<3913,3948>>,<<3953,3971>>,
     <<3976,3991>>,<<3993,4028>>,<<4096,4150>>,<<4152,4152>>,<<4155,4169>>,
     <<4176,4253>>,<<4256,4293>>,<<4295,4295>>,<<4301,4301>>,<<4304,4346>>,
     <<4348,4680>>,<<4682,4685>>,<<4688,4694>>,<<4696,4696>>,<<4698,4701>>,
     <<4704,4744>>,<<4746,4749>>,<<4752,4784>>,<<4786,4789>>,<<4792,4798>>,
     <<4800,4800>>,<<4802,4805>>,<<4808,4822>>,<<4824,4880>>,<<4882,4885>>,
     <<4888,4954>>,<<4969,4988>>,<<4992,5007>>,<<5024,5109>>,<<5112,5117>>,
     <<5121,5740>>,<<5743,5759>>,<<5761,5786>>,<<5792,5866>>,<<5870,5880>>,
     <<5888,5907>>,<<5919,5939>>,<<5952,5971>>,<<5984,5996>>,<<5998,6000>>,
     <<6002,6003>>,<<6016,6067>>,<<6070,6088>>,<<6103,6103>>,<<6108,6108>>,
     <<6112,6121>>,<<6128,6137>>,<<6160,6169>>,<<6176,6264>>,<<6272,6314>>,
     <<6320,6389>>,<<6400,6430>>,<<6432,6443>>,<<6448,6456>>,<<6470,6509>>,
     <<6512,6516>>,<<6528,6571>>,<<6576,6601>>,<<6608,6618>>,<<6656,6683>>,
     <<6688,6750>>,<<6753,6772>>,<<6784,6793>>,<<6800,6809>>,<<6823,6823>>,
     <<6847,6848>>,<<6860,6862>>,<<6912,6963>>,<<6965,6979>>,<<6981,6988>>,
     <<6992,7001>>,<<7040,7081>>,<<7084,7141>>,<<7143,7153>>,<<7168,7222>>,
     <<7232,7241>>,<<7245,7293>>,<<7296,7306>>,<<7312,7354>>,<<7357,7359>>,
     <<7401,7404>>,<<7406,7411>>,<<7413,7414>>,<<7418,7418>>,<<7424,7615>>,
     <<7635,7668>>,<<7680,7957>>,<<7960,7965>>,<<7968,8005>>,<<8008,8013>>,
     <<8016,8023>>,<<8025,8025>>,<<8027,8027>>,<<8029,8029>>,<<8031,8061>>,
     <<8064,8116>>,<<8118,8124>>,<<8126,8126>>,<<8130,8132>>,<<8134,8140>>,
     <<8144,8147>>,<<8150,8155>>,<<8160,8172>>,<<8178,8180>>,<<8182,8188>>,
     <<8304,8305>>,<<8308,8313>>,<<8319,8329>>,<<8336,8348>>,<<8450,8450>>,
     <<8455,8455>>,<<8458,8467>>,<<8469,8469>>,<<8473,8477>>,<<8484,8484>>,
     <<8486,8486>>,<<8488,8488>>,<<8490,8493>>,<<8495,8505>>,<<8508,8511>>,
     <<8517,8521>>,<<8526,8526>>,<<8528,8585>>,<<9312,9371>>,<<9398,9471>>,
     <<10102,10131>>,<<11264,11492>>,<<11499,11502>>,<<11506,11507>>,
     <<11517,11517>>,<<11520,11557>>,<<11559,11559>>,<<11565,11565>>,
     <<11568,11623>>,<<11631,11631>>,<<11648,11670>>,<<11680,11686>>,
     <<11688,11694>>,<<11696,11702>>,<<11704,11710>>,<<11712,11718>>,
     <<11720,11726>>,<<11728,11734>>,<<11736,11742>>,<<11744,11775>>,
     <<11823,11823>>,<<12293,12295>>,<<12321,12329>>,<<12337,12341>>,
     <<12344,12348>>,<<12353,12438>>,<<12445,12447>>,<<12449,12538>>,
     <<12540,12543>>,<<12549,12591>>,<<12593,12686>>,<<12690,12693>>,
     <<12704,12735>>,<<12784,12799>>,<<12832,12841>>,<<12872,12879>>,
     <<12881,12895>>,<<12928,12937>>,<<12977,12991>>,<<13312,19903>>,
     <<19968,42124>>,<<42192,42237>>,<<42240,42508>>,<<42512,42539>>,
     <<42560,42606>>,<<42612,42619>>,<<42623,42735>>,<<42775,42783>>,
     <<42786,42888>>,<<42891,42972>>,<<42993,43013>>,<<43015,43047>>,
     <<43056,43061>>,<<43072,43123>>,<<43136,43203>>,<<43205,43205>>,
     <<43216,43225>>,<<43250,43255>>,<<43259,43259>>,<<43261,43306>>,
     <<43312,43346>>,<<43360,43388>>,<<43392,43442>>,<<43444,43455>>,
     <<43471,43481>>,<<43488,43518>>,<<43520,43574>>,<<43584,43597>>,
     <<43600,43609>>,<<43616,43638>>,<<43642,43710>>,<<43712,43712>>,
     <<43714,43714>>,<<43739,43741>>,<<43744,43759>>,<<43762,43765>>,
     <<43777,43782>>,<<43785,43790>>,<<43793,43798>>,<<43808,43814>>,
     <<43816,43822>>,<<43824,43866>>,<<43868,43881>>,<<43888,44010>>,
     <<44016,44025>>,<<44032,55203>>,<<55216,55238>>,<<55243,55291>>,
     <<63744,64109>>,<<64112,64217>>,<<64256,64262>>,<<64275,64279>>,
     <<64285,64296>>,<<64298,64310>>,<<64312,64316>>,<<64318,64318>>,
     <<64320,64321>>,<<64323,64324>>,<<64326,64433>>,<<64467,64829>>,
     <<64848,64911>>,<<64914,64967>>,<<65008,65019>>,<<65136,65140>>,
     <<65142,65276>>,<<65296,65305>>,<<65313,65338>>,<<65345,65370>>,
     <<65382,65470>>,<<65474,65479>>,<<65482,65487>>,<<65490,65495>>,
     <<65498,65500>>,<<65536,65547>>,<<65549,65574>>,<<65576,65594>>,
     <<65596,65597>>,<<65599,65613>>,<<65616,65629>>,<<65664,65786>>,
     <<65799,65843>>,<<65856,65912>>,<<65930,65931>>,<<66176,66204>>,
     <<66208,66256>>,<<66273,66299>>,<<66304,66339>>,<<66349,66378>>,
     <<66384,66426>>,<<66432,66461>>,<<66464,66499>>,<<66504,66511>>,
     <<66513,66517>>,<<66560,66717>>,<<66720,66729>>,<<66736,66771>>,
     <<66776,66811>>,<<66816,66855>>,<<66864,66915>>,<<66928,66938>>,
     <<66940,66954>>,<<66956,66962>>,<<66964,66965>>,<<66967,66977>>,
     <<66979,66993>>,<<66995,67001>>,<<67003,67004>>,<<67008,67059>>,
     <<67072,67382>>,<<67392,67413>>,<<67424,67431>>,<<67456,67461>>,
     <<67463,67504>>,<<67506,67514>>,<<67584,67589>>,<<67592,67592>>,
     <<67594,67637>>,<<67639,67640>>,<<67644,67644>>,<<67647,67669>>,
     <<67672,67702>>,<<67705,67742>>,<<67751,67759>>,<<67808,67826>>,
     <<67828,67829>>,<<67835,67867>>,<<67872,67897>>,<<67904,67929>>,
     <<67968,68023>>,<<68028,68047>>,<<68050,68099>>,<<68101,68102>>,
     <<68108,68115>>,<<68117,68119>>,<<68121,68149>>,<<68160,68168>>,
     <<68192,68222>>,<<68224,68255>>,<<68288,68295>>,<<68297,68324>>,
     <<68331,68335>>,<<68352,68405>>,<<68416,68437>>,<<68440,68466>>,
     <<68472,68497>>,<<68521,68527>>,<<68608,68680>>,<<68736,68786>>,
     <<68800,68850>>,<<68858,68903>>,<<68912,68921>>,<<68928,68965>>,
     <<68969,68969>>,<<68975,68997>>,<<69216,69246>>,<<69248,69289>>,
     <<69291,69292>>,<<69296,69297>>,<<69314,69319>>,<<69370,69372>>,
     <<69376,69415>>,<<69424,69445>>,<<69457,69460>>,<<69488,69505>>,
     <<69552,69579>>,<<69600,69622>>,<<69632,69701>>,<<69714,69743>>,
     <<69745,69749>>,<<69760,69816>>,<<69826,69826>>,<<69840,69864>>,
     <<69872,69881>>,<<69888,69938>>,<<69942,69951>>,<<69956,69959>>,
     <<69968,70002>>,<<70006,70006>>,<<70016,70079>>,<<70081,70084>>,
     <<70094,70106>>,<<70108,70108>>,<<70113,70132>>,<<70144,70161>>,
     <<70163,70196>>,<<70199,70199>>,<<70206,70209>>,<<70272,70278>>,
     <<70280,70280>>,<<70282,70285>>,<<70287,70301>>,<<70303,70312>>,
     <<70320,70376>>,<<70384,70393>>,<<70400,70403>>,<<70405,70412>>,
     <<70415,70416>>,<<70419,70440>>,<<70442,70448>>,<<70450,70451>>,
     <<70453,70457>>,<<70461,70468>>,<<70471,70472>>,<<70475,70476>>,
     <<70480,70480>>,<<70487,70487>>,<<70493,70499>>,<<70528,70537>>,
     <<70656,70721>>,<<70723,70725>>,<<70727,70730>>,<<70736,70745>>,
     <<70751,70753>>,<<70784,70849>>,<<70852,70853>>,<<70855,70855>>,
     <<70864,70873>>,<<71040,71093>>,<<71096,71102>>,<<71128,71133>>,
     <<71168,71230>>,<<71232,71232>>,<<71236,71236>>,<<71248,71257>>,
     <<71296,71349>>,<<71352,71352>>,<<71360,71369>>,<<71424,71450>>,
     <<71453,71466>>,<<71472,71483>>,<<71488,71494>>,<<71680,71736>>,
     <<71840,71922>>,<<71935,71942>>,<<71945,71945>>,<<71948,71955>>,
     <<71957,71958>>,<<71960,71989>>,<<71991,71992>>,<<71995,71996>>,
     <<71999,72002>>,<<72016,72025>>,<<72096,72103>>,<<72106,72151>>,
     <<72154,72159>>,<<72161,72161>>,<<72163,72164>>,<<72192,72242>>,
     <<72245,72254>>,<<72272,72343>>,<<72349,72349>>,<<72368,72440>>,
     <<72704,72712>>,<<72714,72758>>,<<72760,72766>>,<<72768,72768>>,
     <<72784,72812>>,<<72818,72847>>,<<72850,72871>>,<<72873,72886>>,
     <<72960,72966>>,<<72968,72969>>,<<72971,73014>>,<<73018,73018>>,
     <<73020,73021>>,<<73023,73025>>,<<73027,73027>>,<<73030,73031>>,
     <<73040,73049>>,<<73056,73061>>,<<73063,73064>>,<<73066,73102>>,
     <<73104,73105>>,<<73107,73110>>,<<73112,73112>>,<<73120,73129>>,
     <<73440,73462>>,<<73648,73648>>,<<73664,73684>>,<<73728,74649>>,
     <<74752,74862>>,<<74880,75075>>,<<77712,77808>>,<<77824,78894>>,
     <<82944,83526>>,<<92160,92728>>,<<92736,92766>>,<<92768,92777>>,
     <<92784,92862>>,<<92864,92873>>,<<92880,92909>>,<<92928,92975>>,
     <<92992,92995>>,<<93008,93017>>,<<93019,93025>>,<<93027,93047>>,
     <<93053,93071>>,<<93760,93846>>,<<93952,94026>>,<<94031,94087>>,
     <<94095,94111>>,<<94176,94177>>,<<94179,94179>>,<<94192,94193>>,
     <<94208,100343>>,<<100352,101589>>,<<101632,101640>>,<<110576,110579>>,
     <<110581,110587>>,<<110589,110590>>,<<110592,110882>>,<<110928,110930>>,
     <<110948,110951>>,<<110960,111355>>,<<113664,113770>>,<<113776,113788>>,
     <<113792,113800>>,<<113808,113817>>,<<113822,113822>>,<<119520,119539>>,
     <<119648,119672>>,<<119808,119892>>,<<119894,119964>>,<<119966,119967>>,
     <<119970,119970>>,<<119973,119974>>,<<119977,119980>>,<<119982,119993>>,
     <<119995,119995>>,<<119997,120003>>,<<120005,120069>>,<<120071,120074>>,
     <<120077,120084>>,<<120086,120092>>,<<120094,120121>>,<<120123,120126>>,
     <<120128,120132>>,<<120134,120134>>,<<120138,120144>>,<<120146,120485>>,
     <<120488,120512>>,<<120514,120538>>,<<120540,120570>>,<<120572,120596>>,
     <<120598,120628>>,<<120630,120654>>,<<120656,120686>>,<<120688,120712>>,
     <<120714,120744>>,<<120746,120770>>,<<120772,120779>>,<<120782,120831>>,
     <<122624,122654>>,<<122880,122886>>,<<122888,122904>>,<<122907,122913>>,
     <<122915,122916>>,<<122918,122922>>,<<123136,123180>>,<<123191,123197>>,
     <<123200,123209>>,<<123214,123214>>,<<123536,123565>>,<<123584,123627>>,
     <<123632,123641>>,<<124896,124902>>,<<124904,124907>>,<<124909,124910>>,
     <<124912,124926>>,<<124928,125124>>,<<125127,125135>>,<<125184,125251>>,
     <<125255,125255>>,<<125259,125259>>,<<125264,125273>>,<<126065,126123>>,
     <<126125,126127>>,<<126129,126132>>,<<126209,126253>>,<<126255,126269>>,
     <<126464,126467>>,<<126469,126495>>,<<126497,126498>>,<<126500,126500>>,
     <<126503,126503>>,<<126505,126514>>,<<126516,126519>>,<<126521,126521>>,
     <<126523,126523>>,<<126530,126530>>,<<126535,126535>>,<<126537,126537>>,
     <<126539,126539>>,<<126541,126543>>,<<126545,126546>>,<<126548,126548>>,
     <<126551,126551>>,<<126553,126553>>,<<126555,126555>>,<<126557,126557>>,
     <<126559,126559>>,<<126561,126562>>,<<126564,126564>>,<<126567,126570>>,
     <<126572,126578>>,<<126580,126583>>,<<126585,126588>>,<<126590,126590>>,
     <<126592,126601>>,<<126603,126619>>,<<126625,126627>>,<<126629,126633>>,
     <<126635,126651>>,<<127232,127244>>,<<127280,127305>>,<<127312,127337>>,
     <<127344,127369>>,<<130032,130041>>,<<131072,173791>>,<<173824,177976>>,
     <<177984,178205>>,<<178208,183969>>,<<183984,191456>>,<<194560,195101>>,
     <<196608,201546>>}

(* Code points above ASCII, outside AlphanumericRanges, that Unicode 14
   leaves unassigned or classes as marks: whether char::is_alphanumeric
   accepts one of them depends on the Unicode version of the std the
   program is built with, which the repository does not pin.  Every other
   code point outside AlphanumericRanges is rejected. *)
UnsettledRanges ==
    {<<768,836>>,<<838,866>>,<<888,889>>,<<896,899>>,<<907,907>>,<<909,909>>,
     <<930,930>>,<<1155,1161>>,<<1328,1328>>,<<1367,1368>>,<<1419,1420>>,
     <<1424,1455>>,<<1480,1487>>,<<1515,1518>>,<<1525,1535>>,<<1624,1624>>,
     <<1759,1760>>,<<1770,1772>>,<<1806,1806>>,<<1856,1868>>,<<1970,1983>>,
     <<2027,2035>>,<<2043,2045>>,<<2072,2073>>,<<2093,2095>>,<<2111,2111>>,
     <<2137,2141>>,<<2143,2143>>,<<2155,2159>>,<<2194,2198>>,<<2200,2207>>,
     <<2250,2259>>,<<2272,2273>>,<<2282,2287>>,<<2364,2364>>,<<2381,2381>>,
     <<2385,2388>>,<<2436,2436>>,<<2445,2446>>,<<2449,2450>>,<<2473,2473>>,
     <<2481,2481>>,<<2483,2485>>,<<2490,2492>>,<<2501,2502>>,<<2505,2506>>,
     <<2509,2509>>,<<2511,2518>>,<<2520,2523>>,<<2526,2526>>,<<2532,2533>>,
     <<2558,2560>>,<<2564,2564>>,<<2571,2574>>,<<2577,2578>>,<<2601,2601>>,
     <<2609,2609>>,<<2612,2612>>,<<2615,2615>>,<<2618,2621>>,<<2627,2630>>,
     <<2633,2634>>,<<2637,2640>>,<<2642,2648>>,<<2653,2653>>,<<2655,2661>>,
     <<2679,2688>>,<<2692,2692>>,<<2702,2702>>,<<2706,2706>>,<<2729,2729>>,
     <<2737,2737>>,<<2740,2740>>,<<2746,2748>>,<<2758,2758>>,<<2762,2762>>,
     <<2765,2767>>,<<2769,2783>>,<<2788,2789>>,<<2802,2808>>,<<2813,2816>>,
     <<2820,2820>>,<<2829,2830>>,<<2833,2834>>,<<2857,2857>>,<<2865,2865>>,
     <<2868,2868>>,<<2874,2876>>,<<2885,2886>>,<<2889,2890>>,<<2893,2901>>,
     <<2904,2907>>,<<2910,2910>>,<<2916,2917>>,<<2936,2945>>,<<2948,2948>>,
     <<2955,2957>>,<<2961,2961>>,<<2966,2968>>,<<2971,2971>>,<<2973,2973>>,
     <<2976,2978>>,<<2981,2983>>,<<2987,2989>>,<<3002,3005>>,<<3011,3013>>,
     <<3017,3017>>,<<3021,3023>>,<<3025,3030>>,<<3032,3045>>,<<3067,3071>>,
     <<3085,3085>>,<<3089,3089>>,<<3113,3113>>,<<3130,3132>>,<<3141,3141>>,
     <<3145,3145>>,<<3149,3156>>,<<3159,3159>>,<<3163,3163>>,<<3166,3167>>,
     <<3172,3173>>,<<3184,3190>>,<<3213,3213>>,<<3217,3217>>,<<3241,3241>>,
     <<3252,3252>>,<<3258,3260>>,<<3269,3269>>,<<3273,3273>>,<<3277,3284>>,
     <<3287,3291>>,<<3295,3295>>,<<3300,3301>>,<<3312,3312>>,<<3316,3327>>,
     <<3341,3341>>,<<3345,3345>>,<<3387,3388>>,<<3397,3397>>,<<3401,3401>>,
     <<3405,3405>>,<<3408,3411>>,<<3428,3429>>,<<3456,3456>>,<<3460,3460>>,
     <<3479,3481>>,<<3506,3506>>,<<3516,3516>>,<<3518,3519>>,<<3527,3534>>,
     <<3541,3541>>,<<3543,3543>>,<<3552,3557>>,<<3568,3569>>,<<3573,3584>>,
     <<3643,3646>>,<<3655,3660>>,<<3662,3662>>,<<3676,3712>>,<<3715,3715>>,
     <<3717,3717>>,<<3723,3723>>,<<3748,3748>>,<<3750,3750>>,<<3770,3770>>,
     <<3774,3775>>,<<3781,3781>>,<<3783,3788>>,<<3790,3791>>,<<3802,3803>>,
     <<3808,3839>>,<<3864,3865>>,<<3893,3893>>,<<3895,3895>>,<<3897,3897>>,
     <<3902,3903>>,<<3912,3912>>,<<3949,3952>>,<<3972,3972>>,<<3974,3975>>,
     <<3992,3992>>,<<4029,4029>>,<<4038,4038>>,<<4045,4045>>,<<4059,4095>>,
     <<4151,4151>>,<<4153,4154>>,<<4294,4294>>,<<4296,4300>>,<<4302,4303>>,
     <<4681,4681>>,<<4686,4687>>,<<4695,4695>>,<<4697,4697>>,<<4702,4703>>,
     <<4745,4745>>,<<4750,4751>>,<<4785,4785>>,<<4790,4791>>,<<4799,4799>>,
     <<4801,4801>>,<<4806,4807>>,<<4823,4823>>,<<4881,4881>>,<<4886,4887>>,
     <<4955,4959>>,<<4989,4991>>,<<5018,5023>>,<<5110,5111>>,<<5118,5119>>,
     <<5789,5791>>,<<5881,5887>>,<<5908,5918>>,<<5940,5940>>,<<5943,5951>>,
     <<5972,5983>>,<<5997,5997>>,<<6001,6001>>,<<6004,6015>>,<<6068,6069>>,
     <<6089,6099>>,<<6109,6111>>,<<6122,6127>>,<<6138,6143>>,<<6155,6157>>,
     <<6159,6159>>,<<6170,6175>>,<<6265,6271>>,<<6315,6319>>,<<6390,6399>>,
     <<6431,6431>>,<<6444,6447>>,<<6457,6463>>,<<6465,6467>>,<<6510,6511>>,
     <<6517,6527>>,<<6572,6575>>,<<6602,6607>>,<<6619,6621>>,<<6684,6685>>,
     <<6751,6752>>,<<6773,6783>>,<<6794,6799>>,<<6810,6815>>,<<6830,6846>>,
     <<6849,6859>>,<<6863,6911>>,<<6964,6964>>,<<6980,6980>>,<<6989,6991>>,
     <<7019,7027>>,<<7039,7039>>,<<7082,7083>>,<<7142,7142>>,<<7154,7163>>,
     <<7223,7226>>,<<7242,7244>>,<<7307,7311>>,<<7355,7356>>,<<7368,7378>>,
     <<7380,7400>>,<<7405,7405>>,<<7412,7412>>,<<7415,7417>>,<<7419,7423>>,
     <<7616,7634>>,<<7669,7679>>,<<7958,7959>>,<<7966,7967>>,<<8006,8007>>,
     <<8014,8015>>,<<8024,8024>>,<<8026,8026>>,<<8028,8028>>,<<8030,8030>>,
     <<8062,8063>>,<<8117,8117>>,<<8133,8133>>,<<8148,8149>>,<<8156,8156>>,
     <<8176,8177>>,<<8181,8181>>,<<8191,8191>>,<<8293,8293>>,<<8306,8307>>,
     <<8335,8335>>,<<8349,8351>>,<<8385,8447>>,<<8588,8591>>,<<9255,9279>>,
     <<9291,9311>>,<<11124,11125>>,<<11158,11158>>,<<11503,11505>>,
     <<11508,11512>>,<<11558,11558>>,<<11560,11564>>,<<11566,11567>>,
     <<11624,11630>>,<<11633,11647>>,<<11671,11679>>,<<11687,11687>>,
     <<11695,11695>>,<<11703,11703>>,<<11711,11711>>,<<11719,11719>>,
     <<11727,11727>>,<<11735,11735>>,<<11743,11743>>,<<11870,11903>>,
     <<11930,11930>>,<<12020,12031>>,<<12246,12271>>,<<12284,12287>>,
     <<12330,12335>>,<<12352,12352>>,<<12439,12442>>,<<12544,12548>>,
     <<12592,12592>>,<<12687,12687>>,<<12772,12783>>,<<12831,12831>>,
     <<42125,42127>>,<<42183,42191>>,<<42540,42559>>,<<42607,42610>>,
     <<42620,42621>>,<<42736,42737>>,<<42744,42751>>,<<42973,42992>>,
     <<43014,43014>>,<<43052,43055>>,<<43066,43071>>,<<43128,43135>>,
     <<43204,43204>>,<<43206,43213>>,<<43226,43249>>,<<43307,43309>>,
     <<43347,43358>>,<<43389,43391>>,<<43443,43443>>,<<43456,43456>>,
     <<43470,43470>>,<<43482,43485>>,<<43519,43519>>,<<43575,43583>>,
     <<43598,43599>>,<<43610,43611>>,<<43711,43711>>,<<43713,43713>>,
     <<43715,43738>>,<<43766,43776>>,<<43783,43784>>,<<43791,43792>>,
     <<43799,43807>>,<<43815,43815>>,<<43823,43823>>,<<43884,43887>>,
     <<44012,44015>>,<<44026,44031>>,<<55204,55215>>,<<55239,55242>>,
     <<55292,55295>>,<<64110,64111>>,<<64218,64255>>,<<64263,64274>>,
     <<64280,64284>>,<<64311,64311>>,<<64317,64317>>,<<64319,64319>>,
     <<64322,64322>>,<<64325,64325>>,<<64451,64466>>,<<64912,64913>>,
     <<64968,64974>>,<<65024,65039>>,<<65050,65071>>,<<65107,65107>>,
     <<65127,65127>>,<<65132,65135>>,<<65141,65141>>,<<65277,65278>>,
     <<65280,65280>>,<<65471,65473>>,<<65480,65481>>,<<65488,65489>>,
     <<65496,65497>>,<<65501,65503>>,<<65511,65511>>,<<65519,65528>>,
     <<65548,65548>>,<<65575,65575>>,<<65595,65595>>,<<65598,65598>>,
     <<65614,65615>>,<<65630,65663>>,<<65787,65791>>,<<65795,65798>>,
     <<65844,65846>>,<<65935,65935>>,<<65949,65951>>,<<65953,65999>>,
     <<66045,66175>>,<<66205,66207>>,<<66257,66272>>,<<66300,66303>>,
     <<66340,66348>>,<<66379,66383>>,<<66427,66431>>,<<66462,66462>>,
     <<66500,66503>>,<<66518,66559>>,<<66718,66719>>,<<66730,66735>>,
     <<66772,66775>>,<<66812,66815>>,<<66856,66863>>,<<66916,66926>>,
     <<66939,66939>>,<<66955,66955>>,<<66963,66963>>,<<66966,66966>>,
     <<66978,66978>>,<<66994,66994>>,<<67002,67002>>,<<67005,67007>>,
     <<67060,67071>>,<<67383,67391>>,<<67414,67423>>,<<67432,67455>>,
     <<67462,67462>>,<<67505,67505>>,<<67515,67583>>,<<67590,67591>>,
     <<67593,67593>>,<<67638,67638>>,<<67641,67643>>,<<67645,67646>>,
     <<67670,67670>>,<<67743,67750>>,<<67760,67807>>,<<67827,67827>>,
     <<67830,67834>>,<<67868,67870>>,<<67898,67902>>,<<67930,67967>>,
     <<68024,68027>>,<<68048,68049>>,<<68100,68100>>,<<68103,68107>>,
     <<68116,68116>>,<<68120,68120>>,<<68150,68159>>,<<68169,68175>>,
     <<68185,68191>>,<<68256,68287>>,<<68325,68330>>,<<68343,68351>>,
     <<68406,68408>>,<<68438,68439>>,<<68467,68471>>,<<68498,68504>>,
     <<68509,68520>>,<<68528,68607>>,<<68681,68735>>,<<68787,68799>>,
     <<68851,68857>>,<<68904,68911>>,<<68922,68927>>,<<68966,68968>>,
     <<68970,68974>>,<<68998,69215>>,<<69247,69247>>,<<69290,69290>>,
     <<69294,69295>>,<<69298,69313>>,<<69320,69369>>,<<69373,69375>>,
     <<69416,69423>>,<<69446,69456>>,<<69466,69487>>,<<69506,69509>>,
     <<69514,69551>>,<<69580,69599>>,<<69623,69631>>,<<69702,69702>>,
     <<69710,69713>>,<<69744,69744>>,<<69750,69759>>,<<69817,69818>>,
     <<69827,69836>>,<<69838,69839>>,<<69865,69871>>,<<69882,69887>>,
     <<69939,69941>>,<<69960,69967>>,<<70003,70003>>,<<70007,70015>>,
     <<70080,70080>>,<<70089,70092>>,<<70112,70112>>,<<70133,70143>>,
     <<70162,70162>>,<<70197,70198>>,<<70210,70271>>,<<70279,70279>>,
     <<70281,70281>>,<<70286,70286>>,<<70302,70302>>,<<70314,70319>>,
     <<70377,70383>>,<<70394,70399>>,<<70404,70404>>,<<70413,70414>>,
     <<70417,70418>>,<<70441,70441>>,<<70449,70449>>,<<70452,70452>>,
     <<70458,70460>>,<<70469,70470>>,<<70473,70474>>,<<70477,70479>>,
     <<70481,70486>>,<<70488,70492>>,<<70500,70527>>,<<70538,70655>>,
     <<70722,70722>>,<<70726,70726>>,<<70748,70748>>,<<70750,70750>>,
     <<70754,70783>>,<<70850,70851>>,<<70856,70863>>,<<70874,71039>>,
     <<71094,71095>>,<<71103,71104>>,<<71134,71167>>,<<71231,71231>>,
     <<71237,71247>>,<<71258,71263>>,<<71277,71295>>,<<71350,71351>>,
     <<71354,71359>>,<<71370,71423>>,<<71451,71452>>,<<71467,71471>>,
     <<71495,71679>>,<<71737,71738>>,<<71740,71839>>,<<71923,71934>>,
     <<71943,71944>>,<<71946,71947>>,<<71956,71956>>,<<71959,71959>>,
     <<71990,71990>>,<<71993,71994>>,<<71997,71998>>,<<72003,72003>>,
     <<72007,72015>>,<<72026,72095>>,<<72104,72105>>,<<72152,72153>>,
     <<72160,72160>>,<<72165,72191>>,<<72243,72244>>,<<72263,72271>>,
     <<72344,72345>>,<<72355,72367>>,<<72441,72703>>,<<72713,72713>>,
     <<72759,72759>>,<<72767,72767>>,<<72774,72783>>,<<72813,72815>>,
     <<72848,72849>>,<<72872,72872>>,<<72887,72959>>,<<72967,72967>>,
     <<72970,72970>>,<<73015,73017>>,<<73019,73019>>,<<73022,73022>>,
     <<73026,73026>>,<<73028,73029>>,<<73032,73039>>,<<73050,73055>>,
     <<73062,73062>>,<<73065,73065>>,<<73103,73103>>,<<73106,73106>>,
     <<73111,73111>>,<<73113,73119>>,<<73130,73439>>,<<73465,73647>>,
     <<73649,73663>>,<<73714,73726>>,<<74650,74751>>,<<74863,74863>>,
     <<74869,74879>>,<<75076,77711>>,<<77811,77823>>,<<78895,78895>>,
     <<78905,82943>>,<<83527,92159>>,<<92729,92735>>,<<92767,92767>>,
     <<92778,92781>>,<<92863,92863>>,<<92874,92879>>,<<92910,92916>>,
     <<92918,92927>>,<<92976,92982>>,<<92998,93007>>,<<93018,93018>>,
     <<93026,93026>>,<<93048,93052>>,<<93072,93759>>,<<93851,93951>>,
     <<94027,94030>>,<<94088,94094>>,<<94112,94175>>,<<94180,94191>>,
     <<94194,94207>>,<<100344,100351>>,<<101590,101631>>,<<101641,110575>>,
     <<110580,110580>>,<<110588,110588>>,<<110591,110591>>,<<110883,110927>>,
     <<110931,110947>>,<<110952,110959>>,<<111356,113663>>,<<113771,113775>>,
     <<113789,113791>>,<<113801,113807>>,<<113818,113819>>,<<113821,113821>>,
     <<113828,118607>>,<<118724,118783>>,<<119030,119039>>,<<119079,119080>>,
     <<119141,119145>>,<<119149,119154>>,<<119163,119170>>,<<119173,119179>>,
     <<119210,119213>>,<<119275,119295>>,<<119362,119364>>,<<119366,119519>>,
     <<119540,119551>>,<<119639,119647>>,<<119673,119807>>,<<119893,119893>>,
     <<119965,119965>>,<<119968,119969>>,<<119971,119972>>,<<119975,119976>>,
     <<119981,119981>>,<<119994,119994>>,<<119996,119996>>,<<120004,120004>>,
     <<120070,120070>>,<<120075,120076>>,<<120085,120085>>,<<120093,120093>>,
     <<120122,120122>>,<<120127,120127>>,<<120133,120133>>,<<120135,120137>>,
     <<120145,120145>>,<<120486,120487>>,<<120780,120781>>,<<121344,121398>>,
     <<121403,121452>>,<<121461,121461>>,<<121476,121476>>,<<121484,122623>>,
     <<122655,122879>>,<<122887,122887>>,<<122905,122906>>,<<122914,122914>>,
     <<122917,122917>>,<<122923,123135>>,<<123181,123190>>,<<123198,123199>>,
     <<123210,123213>>,<<123216,123535>>,<<123566,123583>>,<<123628,123631>>,
     <<123642,123646>>,<<123648,124895>>,<<124903,124903>>,<<124908,124908>>,
     <<124911,124911>>,<<124927,124927>>,<<125125,125126>>,<<125136,125183>>,
     <<125252,125254>>,<<125256,125258>>,<<125260,125263>>,<<125274,125277>>,
     <<125280,126064>>,<<126133,126208>>,<<126270,126463>>,<<126468,126468>>,
     <<126496,126496>>,<<126499,126499>>,<<126501,126502>>,<<126504,126504>>,
     <<126515,126515>>,<<126520,126520>>,<<126522,126522>>,<<126524,126529>>,
     <<126531,126534>>,<<126536,126536>>,<<126538,126538>>,<<126540,126540>>,
     <<126544,126544>>,<<126547,126547>>,<<126549,126550>>,<<126552,126552>>,
     <<126554,126554>>,<<126556,126556>>,<<126558,126558>>,<<126560,126560>>,
     <<126563,126563>>,<<126565,126566>>,<<126571,126571>>,<<126579,126579>>,
     <<126584,126584>>,<<126589,126589>>,<<126591,126591>>,<<126602,126602>>,
     <<126620,126624>>,<<126628,126628>>,<<126634,126634>>,<<126652,126703>>,
     <<126706,126975>>,<<127020,127023>>,<<127124,127135>>,<<127151,127152>>,
     <<127168,127168>>,<<127184,127184>>,<<127222,127231>>,<<127406,127461>>,
     <<127491,127503>>,<<127548,127551>>,<<127561,127567>>,<<127570,127583>>,
     <<127590,127743>>,<<128728,128732>>,<<128749,128751>>,<<128765,128767>>,
     <<128884,128895>>,<<128985,128991>>,<<129004,129007>>,<<129009,129023>>,
     <<129036,129039>>,<<129096,129103>>,<<129114,129119>>,<<129160,129167>>,
     <<129198,129199>>,<<129202,129279>>,<<129620,129631>>,<<129646,129647>>,
     <<129653,129655>>,<<129661,129663>>,<<129671,129679>>,<<129709,129711>>,
     <<129723,129727>>,<<129734,129743>>,<<129754,129759>>,<<129768,129775>>,
     <<129783,129791>>,<<129939,129939>>,<<129995,130031>>,<<130042,131069>>,
     <<173792,173823>>,<<177977,177983>>,<<178206,178207>>,<<183970,183983>>,
     <<191457,194559>>,<<195102,196605>>,<<201547,262141>>,<<262144,327677>>,
     <<327680,393213>>,<<393216,458749>>,<<458752,524285>>,<<524288,589821>>,
     <<589824,655357>>,<<655360,720893>>,<<720896,786429>>,<<786432,851965>>,
     <<851968,917501>>,<<917504,917504>>,<<917506,917535>>,<<917632,983037>>}

InRanges(c, ranges) == \E r \in ranges : r[1] <= c /\ c <= r[2]

(* What the std of a build may hold for the team names of the data: any
   set of their code points that lie in UnsettledRanges. *)
StdChoices(name, d) ==
    IF name # "validate_team_names" THEN {{}}
    ELSE SUBSET {c \in UNION {Range(chars(teams(d)[i].name)) : i \in 1..Len(teams(d))} :
                    c >= 128 /\ InRanges(c, UnsettledRanges)}

(* char::is_alphanumeric: is_alphabetic() || is_numeric(), on a code point;
   std is the set of code points of UnsettledRanges that the tables of the
   build hold *)
IsAlphanumeric(c, std) ==
    \/ c \in 48..57
    \/ c \in 65..90
    \/ c \in 97..122
    \/ c >= 128 /\ InRanges(c, AlphanumericRanges)
    \/ c \in std

\* "team name `{}` can only be alphanumeric with dashes"
validate_team_names(d, std) ==
    Done(wrapper(teams(d), LAMBDA t :
            IF \A i \in 1..Len(chars(t.name)) :
                   IsAlphanumeric(chars(t.name)[i], std) \/ chars(t.name)[i] = 45
            THEN <<>>
            ELSE <<<<116,101,97,109,32,110,97,109,101,32,96>> \o t.name
                   \o <<96,32,99,97,110,32,111,110,108,121,32,98,101,32,97,108,112,104,97,110,117,109,101,114,105,99,32,119,105,116,104,32,100,97,115,104,101,115>>>>))

---------------------------------------------------------------------------
(* validate_github_teams *)

\* "GitHub organization `{}` isn't allowed (in team `{}`)"
GithubOrgMsg(org, t) ==
    <<71,105,116,72,117,98,32,111,114,103,97,110,105,122,97,116,105,111,110,32,96>> \o org \o <<96,32,105,115,110,39,116,32,97,108,108,111,119,101,100,32,40,105,110,32,116,101,97,109,32,96>> \o t \o <<96,41>>

\* "GitHub team `{}/{}` is defined for both the `{}` and `{}` teams"
GithubBothMsg(org, name, t, other) ==
    <<71,105,116,72,117,98,32,116,101,97,109,32,96>> \o org \o <<47>> \o name \o <<96,32,105,115,32,100,101,102,105,110,101,100,32,102,111,114,32,98,111,116,104,32,116,104,101,32,96>>
    \o t \o <<96,32,97,110,100,32,96>> \o other \o <<96,32,116,101,97,109,115>>

(* the (team name, github team) items visited; the `found` map carries
   over from one team to the next.  found is a set of <<org, name, team>>
   with one entry per (org, name): the last team inserted. *)
github_team_items(d) ==
    Concat([i \in 1..Len(d.teams) |->
        IF ~github_teams(d.teams[i]).ok THEN <<[err |-> TRUE, e |-> github_teams(d.teams[i]).e]>>
        ELSE [j \in 1..Len(d.teams[i].github_teams) |->
                 [err |-> FALSE, t |-> d.teams[i].name,
                  org |-> d.teams[i].github_teams[j].org,
                  name |-> d.teams[i].github_teams[j].name]]])

RECURSIVE github_teams_loop(_, _, _)
github_teams_loop(items, allowed, found) ==
    IF items = <<>> THEN <<>>
    ELSE LET g == Head(items)
         IN IF g.err THEN <<g.e>> \o github_teams_loop(Tail(items), allowed, found)
            ELSE IF g.org \notin allowed
            THEN <<GithubOrgMsg(g.org, g.t)>>
                 \o github_teams_loop(Tail(items), allowed, found)
            ELSE LET old == {f \in found : f[1] = g.org /\ f[2] = g.name}
                     found2 == (found \ old) \cup {<<g.org, g.name, g.t>>}
                 IN (IF old # {}
                     THEN <<GithubBothMsg(g.org, g.name, g.t,
                                          (CHOOSE f \in old : TRUE)[3])>>
                     ELSE <<>>)
                    \o github_teams_loop(Tail(items), allowed, found2)

validate_github_teams(d) ==
    Done(github_teams_loop(github_team_items(d), d.config.allowed_github_orgs, {}))

---------------------------------------------------------------------------
(* validate_zulip_stream_name *)

\* "the zulip stream name of the team `{}` is a link: only the name is required"
validate_zulip_stream_name(d) ==
    Done(wrapper(teams(d), LAMBDA t :
            IF t.zulip_stream.some /\ StartsWith(t.zulip_stream.v, <<104,116,116,112,115,58,47,47>>)
            THEN <<<<116,104,101,32,122,117,108,105,112,32,115,116,114,101,97,109,32,110,97,109,101,32,111,102,32,116,104,101,32,116,101,97,109,32,96>> \o t.name
                   \o <<96,32,105,115,32,97,32,108,105,110,107,58,32,111,110,108,121,32,116,104,101,32,110,97,109,101,32,105,115,32,114,101,113,117,105,114,101,100>>>>
            ELSE <<>>))

---------------------------------------------------------------------------
(* validate_project_groups_have_parent_teams *)

\* "the project group `{}` doesn't have a parent team, but it's required to have one"
validate_project_groups_have_parent_teams(d) ==
    Done(wrapper(teams(d), LAMBDA t :
            IF t.kind = "ProjectGroup" /\ ~t.subteam_of.some
            THEN <<<<116,104,101,32,112,114,111,106,101,99,116,32,103,114,111,117,112,32,96>> \o t.name
                   \o <<96,32,100,111,101,115,110,39,116,32,104,97,118,101,32,97,32,112,97,114,101,110,116,32,116,101,97,109,44,32,98,117,116,32,105,116,39,115,32,114,101,113,117,105,114,101,100,32,116,111,32,104,97,118,101,32,111,110,101>>>>
            ELSE <<>>))

---------------------------------------------------------------------------
(* validate_discord_team_members_have_discord_ids *)

\* "the following members of the \"{}\" team do not have discord_ids: {}"
\* the members string is name + ", " for each member, cut by its last two
\* bytes with &members[..members.len() - 2]
discord_members_string(d, t, h) ==
    Concat([i \in 1..Len(HashIter(members(t).v, h[<<"team", t.name>>])) |->
        LET name == HashIter(members(t).v, h[<<"team", t.name>>])[i]
        IN IF person(d, name).some /\ ~person(d, name).v.discord_id.some
           THEN name \o <<44,32>> ELSE <<>>])

(* the closure on one team: [r |-> Result, panic |-> BOOLEAN].  The slice
   members[..members.len() - 2] of an empty string panics: the subtraction
   overflows (debug build) or the end index is out of range (release). *)
discord_team(d, t, h) ==
    IF ~(t.discord_roles /\ t.name # <<97,108,108>>) THEN [r |-> Ok(<<>>), panic |-> FALSE]
    ELSE IF ~members(t).ok THEN [r |-> Err(members(t).e), panic |-> FALSE]
    ELSE IF ~discord_ids(d, t).ok THEN [r |-> Err(discord_ids(d, t).e), panic |-> FALSE]
    ELSE IF Cardinality(members(t).v) = Cardinality(discord_ids(d, t).v)
    THEN [r |-> Ok(<<>>), panic |-> FALSE]
    ELSE LET ms == discord_members_string(d, t, h)
         IN IF Len(ms) < 2 THEN [r |-> Ok(<<>>), panic |-> TRUE]
            ELSE [r |-> Err(<<116,104,101,32,102,111,108,108,111,119,105,110,103,32,109,101,109,98,101,114,115,32,111,102,32,116,104,101,32,34>> \o t.name
                            \o <<34,32,116,101,97,109,32,100,111,32,110,111,116,32,104,97,118,101,32,100,105,115,99,111,114,100,95,105,100,115,58,32>>
                            \o SubSeq(ms, 1, Len(ms) - 2)),
                  panic |-> FALSE]

RECURSIVE discord_loop(_, _, _, _)
discord_loop(d, ts, h, errs) ==
    IF ts = <<>> THEN Done(errs)
    ELSE LET o == discord_team(d, Head(ts), h)
         IN IF o.panic THEN Panic(errs)
            ELSE discord_loop(d, Tail(ts), h, errs \o Bail(o.r))

validate_discord_team_members_have_discord_ids(d, h) ==
    discord_loop(d, teams(d), h, <<>>)

---------------------------------------------------------------------------
(* validate_zulip_group_ids *)

\* "person `{}` in '{}' is a member of a Zulip user group but has no Zulip id"
zulip_group_ids_team(d, t, h) ==
    IF ~zulip_groups(t).ok THEN <<zulip_groups(t).e>>
    ELSE IF \A i \in 1..Len(zulip_groups(t).v) :
                ~zulip_groups(t).v[i].includes_team_members
    THEN <<>>
    ELSE wrapper(HashIter(members(t).v, h[<<"team", t.name>>]), LAMBDA member :
            IF person(d, member).some /\ ~person(d, member).v.zulip_id.some
            THEN <<<<112,101,114,115,111,110,32,96>> \o person(d, member).v.github \o <<96,32,105,110,32,39>>
                   \o t.name
                   \o <<39,32,105,115,32,97,32,109,101,109,98,101,114,32,111,102,32,97,32,90,117,108,105,112,32,117,115,101,114,32,103,114,111,117,112,32,98,117,116,32,104,97,115,32,110,111,32,90,117,108,105,112,32,105,100>>>>
            ELSE <<>>)

validate_zulip_group_ids(d, h) ==
    Done(wrapper(teams(d), LAMBDA t : zulip_group_ids_team(d, t, h)))

---------------------------------------------------------------------------
(* validate_zulip_group_extra_people *)

\* "person `{}` does not exist (in Zulip group `{}`)"
zulip_group_extra_people_group(d, g) ==
    LET a == FirstAbsent(g.extra_people, LAMBDA p : person(d, p).some)
    IN IF a.some
       THEN <<<<112,101,114,115,111,110,32,96>> \o a.v \o <<96,32,100,111,101,115,32,110,111,116,32,101,120,105,115,116,32,40,105,110,32,90,117,108,105,112,32,103,114,111,117,112,32,96>>
              \o g.name \o <<96,41>>>>
       ELSE <<>>

validate_zulip_group_extra_people(d) ==
    Done(wrapper(teams(d), LAMBDA t :
            wrapper(t.raw_zulip_groups, LAMBDA g : zulip_group_extra_people_group(d, g))))

---------------------------------------------------------------------------
(* validate_repos.  A Repo is [org, name, teams : set of str,
   individuals : set of str], the keys of its access maps. *)

\* "The repo '{}' is in an invalid org '{}'"
RepoOrgMsg(r) ==
    <<84,104,101,32,114,101,112,111,32,39>> \o r.name \o <<39,32,105,115,32,105,110,32,97,110,32,105,110,118,97,108,105,100,32,111,114,103,32,39>> \o r.org \o <<39>>

\* "access for {}/{} is invalid: '{}' is not configured as a GitHub team for the '{}' org"
RepoTeamMsg(r, t) ==
    <<97,99,99,101,115,115,32,102,111,114,32>> \o r.org \o <<47>> \o r.name \o <<32,105,115,32,105,110,118,97,108,105,100,58,32,39>> \o t
    \o <<39,32,105,115,32,110,111,116,32,99,111,110,102,105,103,117,114,101,100,32,97,115,32,97,32,71,105,116,72,117,98,32,116,101,97,109,32,102,111,114,32,116,104,101,32,39>> \o r.org \o <<39,32,111,114,103>>

\* "access for {}/{} is invalid: '{}' is not the name of a person in the team repo"
RepoPersonMsg(r, p) ==
    <<97,99,99,101,115,115,32,102,111,114,32>> \o r.org \o <<47>> \o r.name \o <<32,105,115,32,105,110,118,97,108,105,100,58,32,39>> \o p
    \o <<39,32,105,115,32,110,111,116,32,116,104,101,32,110,97,109,101,32,111,102,32,97,32,112,101,114,115,111,110,32,105,110,32,116,104,101,32,116,101,97,109,32,114,101,112,111>>

(* the closure on one repo: it returns at the first violation.  kt and ki
   are the keys of the repo's own two maps, access.teams and
   access.individuals *)
repos_repo(d, r, kt, ki) ==
    IF r.org \notin d.config.allowed_github_orgs THEN <<RepoOrgMsg(r)>>
    ELSE LET bt == FirstAbsent(HashIter(r.teams, kt),
                       LAMBDA n : <<r.org, n>> \in data_github_teams(d))
             bp == FirstAbsent(HashIter(r.individuals, ki),
                       LAMBDA p : person(d, p).some)
         IN IF bt.some THEN <<RepoTeamMsg(r, bt.v)>>
            ELSE IF bp.some THEN <<RepoPersonMsg(r, bp.v)>>
            ELSE <<>>

(* every repo of data.repos() holds its own maps, two repos of one org
   and name included: the keys go by the position of the repo *)
validate_repos(d, h) ==
    Done(wrapper([i \in 1..Len(repos(d)) |-> i],
                 LAMBDA i : repos_repo(d, repos(d)[i], h[<<"repo.teams", i>>],
                                       h[<<"repo.individuals", i>>])))

---------------------------------------------------------------------------
(* validate_github_usernames(data, github, errors).  res is what
   github.usernames(ids) returned: Ok(sequence of [id, name], in the
   iteration order of the returned map) or Err(text). *)

(* people: HashMap<github_id, &Person>, collected in order: the last
   person with an id wins *)
people_by_id(d, id) ==
    LET hits == {i \in 1..Len(d.people) : d.people[i].github_id = id}
    IN IF hits = {} THEN None
       ELSE Some(d.people[CHOOSE i \in hits : \A j \in hits : j <= i])

\* "user `{}` changed username to `{}`"
\* "couldn't verify GitHub usernames: {}"
RECURSIVE github_usernames_loop(_, _, _)
github_usernames_loop(d, res, errs) ==
    IF res = <<>> THEN Done(errs)
    ELSE LET u == Head(res)
         IN IF ~people_by_id(d, u.id).some THEN Panic(errs)   \* people[id]
            ELSE github_usernames_loop(d, Tail(res),
                    IF people_by_id(d, u.id).v.github # u.name
                    THEN Append(errs, <<117,115,101,114,32,96>> \o people_by_id(d, u.id).v.github
                                      \o <<96,32,99,104,97,110,103,101,100,32,117,115,101,114,110,97,109,101,32,116,111,32,96>> \o u.name \o <<96>>)
                    ELSE errs)

validate_github_usernames(d, res) ==
    IF res.ok THEN github_usernames_loop(d, res.v, <<>>)
    ELSE Done(<<<<99,111,117,108,100,110,39,116,32,118,101,114,105,102,121,32,71,105,116,72,117,98,32,117,115,101,114,110,97,109,101,115,58,32>> \o res.e>>)

---------------------------------------------------------------------------
(* validate_zulip_users(data, zulip, errors).  res is what
   zulip.get_users() returned: Ok(set of user ids) or Err(text).  A group
   member is [tag, github, zulip_id] with tag "MemberWithId", "JustId" or
   "MemberWithoutId". *)

(* the filter_map: what a member contributes to missing_members *)
(* variant: a member counts as missing only when it carries an id the
   directory does not know *)
missing_member_by_id(m, by_id) ==
    CASE m.tag = "MemberWithId" /\ m.zulip_id \notin by_id -> Some(m.github)
      [] m.tag = "JustId" /\ m.zulip_id \notin by_id ->
             Some(<<73,68,58,32>> \o DecStr(m.zulip_id))
      [] OTHER -> None

missing_member(m, by_id) ==
    CASE m.tag = "MemberWithId" /\ m.zulip_id \notin by_id -> Some(m.github)
      [] m.tag = "JustId" /\ m.zulip_id \notin by_id ->
             Some(<<73,68,58,32>> \o DecStr(m.zulip_id))
      [] m.tag = "MemberWithoutId" -> Some(m.github)
      [] OTHER -> None

(* missing_members: HashSet<String> *)
missing_members(g, by_id) ==
    {missing_member(g.members[i], by_id).v :
        i \in {j \in 1..Len(g.members) : missing_member(g.members[j], by_id).some}}

\* "the \"{}\" Zulip group includes members who don't appear on Zulip: {}"
ZulipMissingMsg(name, listed) ==
    <<116,104,101,32,34>> \o name
    \o <<34,32,90,117,108,105,112,32,103,114,111,117,112,32,105,110,99,108,117,100,101,115,32,109,101,109,98,101,114,115,32,119,104,111,32,100,111,110,39,116,32,97,112,112,101,97,114,32,111,110,32,90,117,108,105,112,58,32>>
    \o Join(listed, <<44,32>>)

(* k is the key of the missing_members set of this call of the closure *)
zulip_users_group(g, by_id, k) ==
    IF missing_members(g, by_id) # {}
    THEN <<ZulipMissingMsg(g.name, HashIter(missing_members(g, by_id), k))>>
    ELSE <<>>

\* "couldn't verify Zulip users: {}"
\* "couldn't get all the Zulip groups: {}"
validate_zulip_users(d, res, h) ==
    IF ~res.ok THEN Done(<<<<99,111,117,108,100,110,39,116,32,118,101,114,105,102,121,32,90,117,108,105,112,32,117,115,101,114,115,58,32>> \o res.e>>)
    ELSE IF ~data_zulip_groups(d).ok
    THEN Done(<<<<99,111,117,108,100,110,39,116,32,103,101,116,32,97,108,108,32,116,104,101,32,90,117,108,105,112,32,103,114,111,117,112,115,58,32>> \o data_zulip_groups(d).e>>)
    ELSE Done(wrapper([i \in 1..Len(data_zulip_groups(d).v) |-> i],
                      LAMBDA i : zulip_users_group(data_zulip_groups(d).v[i],
                                     res.v, h[<<"zulip_group", i>>])))

---------------------------------------------------------------------------
(* The check registry: CHECKS, GITHUB_CHECKS, ZULIP_CHECKS.  The name of a
   check is stringify!(function). *)
CHECKS == <<
    "validate_name_prefixes",
    "validate_subteam_of",
    "validate_team_leads",
    "validate_team_members",
    "validate_alumni",
    "validate_inactive_members",
    "validate_list_email_addresses",
    "validate_list_extra_people",
    "validate_list_extra_teams",
    "validate_list_addresses",
    "validate_people_addresses",
    "validate_duplicate_permissions",
    "validate_permissions",
    "validate_rfcbot_labels",
    "validate_rfcbot_exclude_members",
    "validate_team_names",
    "validate_github_teams",
    "validate_zulip_stream_name",
    "validate_project_groups_have_parent_teams",
    "validate_discord_team_members_have_discord_ids",
    "validate_zulip_group_ids",
    "validate_zulip_group_extra_people",
    "validate_repos" >>

GITHUB_CHECKS == << "validate_github_usernames" >>

ZULIP_CHECKS == << "validate_zulip_users" >>

(* (check.f)(data, &mut errors) for the Local check called `name`, under the
   keys h of its hash sets and the tables std of the build *)
CallLocal(name, d, h, std) ==
    CASE name = "validate_name_prefixes" -> validate_name_prefixes(d)
      [] name = "validate_subteam_of" -> validate_subteam_of(d)
      [] name = "validate_team_leads" -> validate_team_leads(d, h)
      [] name = "validate_team_members" -> validate_team_members(d, h)
      [] name = "validate_alumni" -> validate_alumni(d, h)
      [] name = "validate_inactive_members" -> validate_inactive_members(d, h)
      [] name = "validate_list_email_addresses" -> validate_list_email_addresses(d, h)
      [] name = "validate_list_extra_people" -> validate_list_extra_people(d)
      [] name = "validate_list_extra_teams" -> validate_list_extra_teams(d)
      [] name = "validate_list_addresses" -> validate_list_addresses(d)
      [] name = "validate_people_addresses" -> validate_people_addresses(d)
      [] name = "validate_duplicate_permissions" -> validate_duplicate_permissions(d, h)
      [] name = "validate_permissions" -> validate_permissions(d)
      [] name = "validate_rfcbot_labels" -> validate_rfcbot_labels(d)
      [] name = "validate_rfcbot_exclude_members" -> validate_rfcbot_exclude_members(d)
      [] name = "validate_team_names" -> validate_team_names(d, std)
      [] name = "validate_github_teams" -> validate_github_teams(d)
      [] name = "validate_zulip_stream_name" -> validate_zulip_stream_name(d)
      [] name = "validate_project_groups_have_parent_teams" ->
             validate_project_groups_have_parent_teams(d)
      [] name = "validate_discord_team_members_have_discord_ids" ->
             validate_discord_team_members_have_discord_ids(d, h)
      [] name = "validate_zulip_group_ids" -> validate_zulip_group_ids(d, h)
      [] name = "validate_zulip_group_extra_people" -> validate_zulip_group_extra_people(d)
      [] name = "validate_repos" -> validate_repos(d, h)

(* The hash sets and hash maps a check iterates, as pairs <<set, elements>>:
   the members() or leads() of each team (by the name of the team, its
   key in the data), the access maps of each repo and the missing members
   of each chat group (by position: each element of data.repos() and of
   data.zulip_groups() holds sets of its own; at most one missing member
   per member of the group), the unreferenced people. *)
HashSetsOf(name, d) ==
    LET ts == teams(d)
        rs == repos(d)
        gs == IF data_zulip_groups(d).ok THEN data_zulip_groups(d).v ELSE <<>>
        of(t) == IF members(t).ok THEN members(t).v ELSE {}
    IN CASE name = "validate_team_leads" ->
                {<<<<"team", ts[i].name>>, ts[i].leads>> : i \in 1..Len(ts)}
         [] name \in {"validate_team_members", "validate_list_email_addresses",
                      "validate_duplicate_permissions", "validate_zulip_group_ids",
                      "validate_discord_team_members_have_discord_ids"} ->
                {<<<<"team", ts[i].name>>, of(ts[i])>> : i \in 1..Len(ts)}
         [] name = "validate_alumni" ->
                {<<<<"team", ts[i].name>>, of(ts[i])>> :
                    i \in {j \in 1..Len(ts) : ts[j].name = <<97,108,117,109,110,105>>}}
         [] name = "validate_inactive_members" ->
                {<<<<"people", <<>>>>, all_members(d) \ referenced_members(d)>>}
         [] name = "validate_repos" ->
                {<<<<"repo.teams", i>>, rs[i].teams>> : i \in 1..Len(rs)}
                \cup {<<<<"repo.individuals", i>>, rs[i].individuals>> :
                         i \in 1..Len(rs)}
         [] name = "validate_zulip_users" ->
                {<<<<"zulip_group", i>>, 1..Len(gs[i].members)>> :
                    i \in 1..Len(gs)}
         [] OTHER -> {}

(* The RandomState keys a call of the check may meet: one key per set it
   iterates, every arrangement of every set being the order of some key. *)
Hashers(name, d) ==
    LET P == HashSetsOf(name, d)
        top == Fact(CHOOSE n \in {Cardinality(p[2]) : p \in P} \cup {0} :
                       \A p \in P : Cardinality(p[2]) <= n)
    IN {h \in [{p[1] : p \in P} -> 0..(top - 1)] :
           \A s \in DOMAIN h :
               \E p \in P : p[1] = s /\ h[s] < Fact(Cardinality(p[2]))}

(* errors.sort(); errors.dedup_by(|a, b| a == b) *)
SortDedup(errs) == Dedup(SortStrings(errs))

---------------------------------------------------------------------------
(* What the two directories may answer.  ids and names are those of the
   people of the data, plus one the data does not know. *)

(* the error of a failed github.require_auth() *)
GithubError == <<109,105,115,115,105,110,103,32,101,110,118,105,114,111,110,109,101,110,116,32,118,97,114,105,97,98,108,101,32,71,73,84,72,85,66,95,84,79,75,69,78>>

(* github.usernames(ids): an error, the current names unchanged, one
   person renamed, or a map holding an id that was not asked for; the
   entries of a map are listed in ascending order of the ids asked for *)
GithubResults(d) ==
    LET same == [i \in 1..Len(d.people) |->
                    [id |-> d.people[i].github_id, name |-> d.people[i].github]]
        unknown == CHOOSE n \in 1..(Len(d.people) + 1) :
                       \A i \in 1..Len(d.people) : d.people[i].github_id # n
    IN {Err(<<114,97,116,101,32,108,105,109,105,116,101,100>>), Ok(same)}
       \cup {Ok([same EXCEPT ![i].name = <<114,101,110,97,109,101,100>>]) : i \in 1..Len(same)}
       \cup {Ok(Append(same, [id |-> unknown, name |-> <<115,116,114,97,110,103,101,114>>]))}

(* zulip.get_users(): an error, or the ids of the users of the directory *)
ZulipResults == {ErrSet(<<117,110,97,117,116,104,111,114,105,122,101,100>>)} \cup {Ok(ids) : ids \in SUBSET (1..MaxZulipId)}

---------------------------------------------------------------------------
(* validate(data, strict, skip) *)

(* lines 64-71: one iteration of `for check in CHECKS` *)
LocalCheck ==
    /\ pc = "local"
    /\ LET name == CHECKS[idx]
           next == IF idx = Len(CHECKS) THEN "github_probe" ELSE "local"
       IN IF name \in skip
          THEN /\ pc' = next
               /\ UNCHANGED <<errors, executed>>
          ELSE \E h \in Hashers(name, data), std \in StdChoices(name, data) :
               LET o == CallLocal(name, data, h, std)
               IN /\ errors' = errors \o o.errs
                  /\ executed' = Append(executed, name)
                  /\ pc' = IF o.panic THEN "panicked" ELSE next
    /\ idx' = IF idx = Len(CHECKS) THEN 1 ELSE idx + 1
    /\ UNCHANGED <<walk, data, strict, skip, github_auth, zulip_auth,
                   github_res, zulip_res, logged, result>>

(* variant: the probe without the strict mode *)
ProbeGithub_NoStrict ==
    /\ pc = "github_probe"
    /\ \E ok \in BOOLEAN :
        /\ github_auth' = IF ok THEN "ok" ELSE "err"
        /\ pc' = IF ok THEN "github" ELSE "zulip_probe"
        /\ result' = result
    /\ UNCHANGED <<walk, data, strict, skip, idx, errors, executed, zulip_auth,
                   github_res, zulip_res, logged>>

(* lines 73-81: GitHubApi::new(), github.require_auth() *)
ProbeGithub ==
    /\ pc = "github_probe"
    /\ \E ok \in BOOLEAN :
        /\ github_auth' = IF ok THEN "ok" ELSE "err"
        /\ IF ok THEN /\ pc' = "github"
                      /\ result' = result
           ELSE IF strict
           THEN /\ pc' = "done"
                /\ result' = [kind |-> "Err", error |-> GithubError]
           ELSE /\ pc' = "zulip_probe"
                /\ result' = result
    /\ UNCHANGED <<walk, data, strict, skip, idx, errors, executed, zulip_auth,
                   github_res, zulip_res, logged>>

(* lines 82-89: one iteration of `for check in GITHUB_CHECKS` *)
GithubCheck ==
    /\ pc = "github"
    /\ LET name == GITHUB_CHECKS[idx]
           next == IF idx = Len(GITHUB_CHECKS) THEN "zulip_probe" ELSE "github"
       IN IF name \in skip
          THEN /\ pc' = next
               /\ UNCHANGED <<errors, executed, github_res>>
          ELSE \E res \in GithubResults(data) :
               \E k \in 0..(Fact(IF res.ok THEN Len(res.v) ELSE 0) - 1) :
               \* res.iter(): the map iterates in any arrangement
               LET it == IF res.ok THEN Ok(NthPerm(res.v, k)) ELSE res
                   o == validate_github_usernames(data, it)
               IN /\ github_res' = Some(it)
                  /\ errors' = errors \o o.errs
                  /\ executed' = Append(executed, name)
                  /\ pc' = IF o.panic THEN "panicked" ELSE next
    /\ idx' = IF idx = Len(GITHUB_CHECKS) THEN 1 ELSE idx + 1
    /\ UNCHANGED <<walk, data, strict, skip, github_auth, zulip_auth,
                   zulip_res, logged, result>>

(* lines 92-96: ZulipApi::new(), zulip.require_auth() *)
ProbeZulip ==
    /\ pc = "zulip_probe"
    /\ \E ok \in BOOLEAN :
        /\ zulip_auth' = IF ok THEN "ok" ELSE "err"
        /\ pc' = IF ok THEN "zulip" ELSE "finish"
    /\ UNCHANGED <<walk, data, strict, skip, idx, errors, executed, github_auth,
                   github_res, zulip_res, logged, result>>

(* lines 97-104: one iteration of `for check in ZULIP_CHECKS` *)
ZulipCheck ==
    /\ pc = "zulip"
    /\ LET name == ZULIP_CHECKS[idx]
           next == IF idx = Len(ZULIP_CHECKS) THEN "finish" ELSE "zulip"
       IN IF name \in skip
          THEN /\ pc' = next
               /\ UNCHANGED <<errors, executed, zulip_res>>
          ELSE \E res \in ZulipResults, h \in Hashers(name, data) :
               LET o == validate_zulip_users(data, res, h)
               IN /\ zulip_res' = Some(res)
                  /\ errors' = errors \o o.errs
                  /\ executed' = Append(executed, name)
                  /\ pc' = IF o.panic THEN "panicked" ELSE next
    /\ idx' = IF idx = Len(ZULIP_CHECKS) THEN 1 ELSE idx + 1
    /\ UNCHANGED <<walk, data, strict, skip, github_auth, zulip_auth,
                   github_res, logged, result>>

\* "{} validation errors found"
ManyErrors(n) == DecStr(n) \o <<32,118,97,108,105,100,97,116,105,111,110,32,101,114,114,111,114,115,32,102,111,117,110,100>>

(* lines 107-118: sort, dedup, log every error, bail with the count *)
Finish ==
    /\ pc = "finish"
    /\ IF errors # <<>>
       THEN /\ errors' = SortDedup(errors)
            /\ logged' = errors'
            /\ result' = [kind |-> "Err", error |-> ManyErrors(Len(errors'))]
       ELSE /\ result' = [kind |-> "Ok", error |-> <<>>]
            /\ UNCHANGED <<errors, logged>>
    /\ pc' = "done"
    /\ UNCHANGED <<walk, data, strict, skip, idx, executed, github_auth,
                   zulip_auth, github_res, zulip_res>>

Next ==
    \/ LocalCheck
    \/ ProbeGithub
    \/ GithubCheck
    \/ ProbeZulip
    \/ ZulipCheck
    \/ Finish

---------------------------------------------------------------------------
(* The data models the runs start from. *)

(* a Permissions value granting the permissions P, which validates *)
Perms(P) == [direct |-> P, indirect |-> {}, validate |-> Ok(<<>>)]

(* a team with nothing but a name, a kind, a parent and its members *)
MkTeam(name, kind, parent, mem) ==
    [name |-> name, kind |-> kind, subteam_of |-> parent, members |-> mem,
     explicit_members |-> <<>>, leads |-> {}, alumni |-> <<>>,
     raw_lists |-> <<>>, permissions |-> Perms({}),
     leads_permissions |-> Perms({}), rfcbot |-> None, github_teams |-> <<>>,
     zulip_stream |-> None, discord_roles |-> FALSE, raw_zulip_groups |-> <<>>]

(* a person with an email address and every id *)
MkPerson(github, id) ==
    [github |-> github, github_id |-> id,
     email |-> [kind |-> "Present", addr |-> github \o <<64,114,117,115,116,45,108,97,110,103,46,111,114,103>>],
     zulip_id |-> Some(id), discord_id |-> Some(id), permissions |-> Perms({})]

MkConfig(perms) ==
    [allowed_github_orgs |-> {<<114,117,115,116,45,108,97,110,103>>},
     allowed_mailing_lists_domains |-> {<<114,117,115,116,45,108,97,110,103,46,111,114,103>>},
     permissions |-> perms]

MkData(ts, archived, ps, rs, zgs, perms) ==
    [teams |-> ts, archived_teams |-> archived, people |-> ps, repos |-> rs,
     zulip_groups |-> zgs, config |-> MkConfig(perms)]

(* the text of the failed membership resolution of the team named n *)
MembersError(n) ==
    <<116,101,97,109,32,96>> \o n \o <<96,32,105,110,99,108,117,100,101,115,32,109,101,109,98,101,114,115,32,102,114,111,109,32,110,111,110,45,101,120,105,115,116,101,110,116,32,116,101,97,109,32,96,103,104,111,115,116,115,96>>

(* the walk record of the runs that do not follow a walk step by step *)
NoWalk == [start |-> <<>>, team |-> <<>>, visited |-> <<>>, status |-> "none",
           r |-> Ok(<<>>)]

(* the state validate starts in, for a data model, a strict flag and a
   skip set *)
Start(d, s, sk) ==
    /\ data = d
    /\ strict = s
    /\ skip = sk
    /\ pc = "local"
    /\ idx = 1
    /\ errors = <<>>
    /\ executed = <<>>
    /\ github_auth = "unprobed"
    /\ zulip_auth = "unprobed"
    /\ github_res = None
    /\ zulip_res = None
    /\ logged = <<>>
    /\ result = [kind |-> "None", error |-> <<>>]
    /\ walk = NoWalk

---------------------------------------------------------------------------
(* Spec: runs of validate over data models that exercise the runner: a
   team whose members resolve, name a person that does not exist, or fail
   to resolve; chat roles; a chat group in the three member encodings. *)

CoreMemberChoices ==
    {Ok({<<97,108,105,99,101>>}), Ok({<<97,108,105,99,101>>, <<98,111,98>>}), Ok({<<97,108,105,99,101>>, <<103,104,111,115,116>>}),
     ErrSet(MembersError(<<99,111,114,101>>))}

ZWithId(github, id) == [tag |-> "MemberWithId", github |-> github, zulip_id |-> id]
ZJustId(id) == [tag |-> "JustId", github |-> <<>>, zulip_id |-> id]
ZWithoutId(github) == [tag |-> "MemberWithoutId", github |-> github, zulip_id |-> 0]

ZulipMemberChoices ==
    {<<>>,
     <<ZWithId(<<97,108,105,99,101>>, 1), ZWithoutId(<<98,111,98>>)>>,
     <<ZJustId(1), ZJustId(2)>>}

MainData(m, roles, discord, zm) ==
    MkData(
        <<[MkTeam(<<99,111,114,101>>, "Team", None, m) EXCEPT
              !.leads = {<<97,108,105,99,101>>}, !.discord_roles = roles],
          MkTeam(<<108,97,110,103>>, "Team", None, Ok({<<97,108,105,99,101>>, <<98,111,98>>}))>>,
        <<>>,
        <<[MkPerson(<<97,108,105,99,101>>, 1) EXCEPT !.discord_id = discord],
          [MkPerson(<<98,111,98>>, 2) EXCEPT !.discord_id = discord]>>,
        <<[org |-> <<114,117,115,116,45,108,97,110,103>>, name |-> <<114,117,115,116>>, teams |-> {},
           individuals |-> {<<98,111,98>>}]>>,
        Ok(<<[name |-> <<99,111,114,101>>, members |-> zm]>>),
        <<<<112,101,114,102>>>>)

MainDataSet ==
    {MainData(m, roles, discord, zm) :
        m \in CoreMemberChoices, roles \in BOOLEAN,
        discord \in {NoId, Some(1)}, zm \in ZulipMemberChoices}

SkipChoices ==
    {{},
     {"validate_discord_team_members_have_discord_ids", "validate_github_usernames"},
     {"validate_team_members", "validate_zulip_users"}}

Init ==
    \E d \in MainDataSet, s \in BOOLEAN, sk \in SkipChoices :
        Start(d, s, sk)

Spec == Init /\ [][Next]_vars

---------------------------------------------------------------------------
(* Properties of the runner *)

(* validate has returned, or a check has panicked and unwound it *)
Terminated == pc \in {"done", "panicked"}

(* validate returned at line 76 *)
StrictAbort == pc = "done" /\ strict /\ github_auth = "err"

Ascending(s) == \A i \in 1..(Len(s) - 1) : StrLess(s[i], s[i + 1])

NotSkipped(checks) == SelectSeq(checks, LAMBDA name : name \notin skip)

(* the registry sequence restricted to the checks that are not skipped
   and whose tier's adapter answered require_auth *)
RegistrySequence ==
    NotSkipped(CHECKS)
    \o (IF github_auth = "ok" THEN NotSkipped(GITHUB_CHECKS) ELSE <<>>)
    \o (IF zulip_auth = "ok" THEN NotSkipped(ZULIP_CHECKS) ELSE <<>>)

(* C1: every run of validate that does not return the code-host failure
   ends returning Ok exactly when no check appended a message, and
   otherwise the aggregate error whose count is the number of distinct
   messages, the log being ascending without repetition. *)
C1_ReturnsOkIffNoErrors ==
    (Terminated /\ ~StrictAbort) =>
        /\ (result.kind = "Ok") <=> (errors = <<>>)
        /\ errors # <<>> =>
            /\ result = [kind |-> "Err",
                         error |-> ManyErrors(Cardinality(Range(errors)))]
            /\ Range(logged) = Range(errors)
            /\ Ascending(logged)

(* C1 on the runs that reach line 107: the part of the property that the
   code keeps *)
C1_WhenReturning ==
    (pc = "done" /\ ~StrictAbort) =>
        /\ (result.kind = "Ok") <=> (errors = <<>>)
        /\ errors # <<>> =>
            /\ result = [kind |-> "Err",
                         error |-> ManyErrors(Cardinality(Range(errors)))]
            /\ Range(logged) = Range(errors)
            /\ Ascending(logged)

(* C2: when a run has ended, the checks called are exactly the registry
   sequence without the skipped checks and the tiers whose adapter is
   unavailable, each once and in order. *)
C2_RunsRegistrySequence == Terminated => executed = RegistrySequence

(* C2 on the runs that return *)
C2_WhenReturning == pc = "done" => executed = RegistrySequence

(* C3: validate returns the code-host adapter's failure exactly when
   strict is set and require_auth failed; it has then returned after the
   Local tier, without probing the chat adapter or calling a check of the
   other tiers.  An unavailable adapter otherwise only leaves its tier out:
   the run fails only if a check appended a message. *)
C3_StrictAbortOnly ==
    /\ (result = [kind |-> "Err", error |-> GithubError])
           <=> (strict /\ github_auth = "err")
    /\ (strict /\ github_auth = "err") =>
           /\ pc = "done"
           /\ zulip_auth = "unprobed"
           /\ executed = NotSkipped(CHECKS)
           /\ logged = <<>>
    /\ github_auth = "err" => \A i \in 1..Len(executed) :
           ~SeqContains(GITHUB_CHECKS, executed[i])
    /\ zulip_auth = "err" => \A i \in 1..Len(executed) :
           ~SeqContains(ZULIP_CHECKS, executed[i])
    /\ (pc = "done" /\ ~StrictAbort) =>
           ((result.kind = "Err") <=> (errors # <<>>))

(* C3 witness: a strict run whose Local tier collected messages returned
   the adapter's failure *)
C3_Witness ==
    /\ pc = "done"
    /\ strict
    /\ github_auth = "err"
    /\ errors # <<>>
    /\ result = [kind |-> "Err", error |-> GithubError]

(* C3 second witness: both adapters unavailable without strict, and the
   run returned Ok *)
C3_WitnessLenient ==
    /\ pc = "done"
    /\ ~strict
    /\ github_auth = "err"
    /\ zulip_auth = "err"
    /\ result.kind = "Ok"

(* the keys under which every hash set of the data iterates in ascending
   order *)
SortedHasher ==
    [s \in UNION {{p[1] : p \in HashSetsOf(name, data)} :
                     name \in Range(CHECKS) \cup Range(ZULIP_CHECKS)} |-> 0]

(* what the executed checks append when the hash sets iterate under the
   keys h, the checks of each tier called in the order given (the team
   names of the data are ASCII: the tables of the std play no part) *)
MessagesUnder(h, local, github, zulip) ==
    Concat([i \in 1..Len(local) |-> CallLocal(local[i], data, h, {}).errs])
    \o Concat([i \in 1..Len(github) |->
                  validate_github_usernames(data, github_res.v).errs])
    \o Concat([i \in 1..Len(zulip) |->
                  validate_zulip_users(data, zulip_res.v, h).errs])

Executed(checks) ==
    SelectSeq(checks, LAMBDA name : SeqContains(executed, name))

(* C4: the final sorted, deduplicated messages of a run that returned are
   those of any other run on the same inputs.  Stated against one run that
   every other run is compared with: the messages are those of the run
   whose hash sets all iterate in ascending order, with the checks of each
   tier in the order of the registry or in reverse order. *)
C4_SameMessagesEveryRun ==
    (pc = "done" /\ ~StrictAbort) =>
        /\ errors = SortDedup(MessagesUnder(SortedHasher, Executed(CHECKS),
                        Executed(GITHUB_CHECKS), Executed(ZULIP_CHECKS)))
        /\ errors = SortDedup(MessagesUnder(SortedHasher, Reverse(Executed(CHECKS)),
                        Executed(GITHUB_CHECKS), Executed(ZULIP_CHECKS)))

(* C4 restricted to the order of the checks, the hash sets iterating in one
   and the same order: calling the checks in reverse order gives the same
   final messages *)
C4_CheckOrderOnly ==
    (pc = "done" /\ ~StrictAbort) =>
        SortDedup(MessagesUnder(SortedHasher, Executed(CHECKS),
            Executed(GITHUB_CHECKS), Executed(ZULIP_CHECKS)))
        = SortDedup(MessagesUnder(SortedHasher, Reverse(Executed(CHECKS)),
              Executed(GITHUB_CHECKS), Executed(ZULIP_CHECKS)))

---------------------------------------------------------------------------
(* SpecHierarchy: runs of validate over every hierarchy of MaxTeams teams
   and every hierarchy of the three teams core, lang and infra, each a Team
   or a ProjectGroup whose parent is absent, one of the teams (itself
   included) or a team that does not exist. *)

TeamNames == <<<<99,111,114,101>>, <<108,97,110,103>>, <<105,110,102,114,97>>, <<108,105,98,115>>, <<100,111,99,115>>>>

HierNames == {TeamNames[i] : i \in 1..MaxTeams}

ParentChoices == {None} \cup {Some(n) : n \in HierNames \cup {<<103,104,111,115,116>>}}

HierKinds == {"Team", "ProjectGroup"}

HierDataSet ==
    {MkData([i \in 1..MaxTeams |-> MkTeam(TeamNames[i], k[i], p[i], Ok({}))],
            <<>>, <<>>, <<>>, Ok(<<>>), <<>>) :
        k \in [1..MaxTeams -> HierKinds], p \in [1..MaxTeams -> ParentChoices]}

(* the hierarchies of core, lang and infra: cycles of three teams, chains
   of two teams into a cycle, a nesting met at the second hop of a walk *)
ChainNames == <<<<99,111,114,101>>, <<108,97,110,103>>, <<105,110,102,114,97>>>>

ChainDataSet ==
    {MkData([i \in 1..Len(ChainNames) |-> MkTeam(ChainNames[i], k[i], p[i], Ok({}))],
            <<>>, <<>>, <<>>, Ok(<<>>), <<>>) :
        k \in [1..Len(ChainNames) -> HierKinds],
        p \in [1..Len(ChainNames) ->
                  {None} \cup {Some(n) : n \in Range(ChainNames) \cup {<<103,104,111,115,116>>}}]}

InitHierarchy ==
    \/ \E d \in HierDataSet, sk \in {{}, {"validate_subteam_of"}} :
           Start(d, FALSE, sk)
    \/ \E d \in ChainDataSet : Start(d, FALSE, {})

SpecHierarchy == InitHierarchy /\ [][Next]_vars

---------------------------------------------------------------------------
(* The hierarchy as a graph, stated without the walk of the check *)

TeamSet == Range(data.teams)

TeamNamed(n) == CHOOSE t \in TeamSet : t.name = n

Exists(n) == \E t \in TeamSet : t.name = n

(* the k-th name on the parent chain of the team named n; <<>> once the
   chain has ended (a team without parent, or a parent that does not
   exist) *)
RECURSIVE Up(_, _)
Up(n, k) ==
    IF k = 0 THEN n
    ELSE LET m == Up(n, k - 1)
         IN IF m # <<>> /\ Exists(m) /\ TeamNamed(m).subteam_of.some
            THEN TeamNamed(m).subteam_of.v ELSE <<>>

NTeams == Len(data.teams)

(* the team named n lies on a parent-link cycle *)
OnCycle(n) == \E k \in 1..NTeams : Up(n, k) = n

(* the parent chain of n never ends: it runs into a cycle *)
ReachesCycle(n) == \A k \in 0..NTeams : Up(n, k) # <<>> /\ Exists(Up(n, k))

(* the names on the cycle through n *)
CycleOf(n) == {Up(n, k) : k \in 0..NTeams}

Cycles == {CycleOf(t.name) : t \in {u \in TeamSet : OnCycle(u.name)}}

(* the index of the first step of the chain of n that returns to a name
   already on it *)
FirstRepeat(n) ==
    CHOOSE j \in 0..NTeams :
        /\ \E i \in 0..j : Up(n, j + 1) = Up(n, i)
        /\ \A l \in 0..(j - 1) : \A i \in 0..l : Up(n, l + 1) # Up(n, i)

(* the path walked from n up to its first repeat *)
PathOf(n) == [i \in 1..(FirstRepeat(n) + 1) |-> Up(n, i - 1)]

(* a team other than a Team precedes the repeat on the chain of n: its
   parent has a parent, which the walk reports first *)
NestingFirst(n) ==
    \E i \in 0..(FirstRepeat(n) - 1) : TeamNamed(Up(n, i)).kind # "Team"

IsInfix(part, s) ==
    \E i \in 0..(Len(s) - Len(part)) :
        \A j \in 1..Len(part) : s[i + j] = part[j]

IsCycleMsg(m) == IsInfix(<<96,32,105,115,32,97,32,115,117,98,116,101,97,109,32,111,102,32,105,116,115,101,108,102,58,32>>, m)

CycleMsgCount == Cardinality({i \in 1..Len(errors) : IsCycleMsg(errors[i])})

SubteamOfRan == SeqContains(executed, "validate_subteam_of")

(* C5: the hierarchy check reports exactly one cycle violation
   for each parent-link cycle, and none for an acyclic hierarchy. *)
C5_OneViolationPerCycle ==
    SubteamOfRan => CycleMsgCount = Cardinality(Cycles)

(* every team on the parent chain of n, the teams of the cycle it runs
   into included, is of kind Team *)
AllTeamChain(n) ==
    \A i \in 0..NTeams : TeamNamed(Up(n, i)).kind = "Team"

(* C5, walk by walk: the hierarchy check reports one cycle violation for every
   team whose parent walk runs into a cycle and meets no team of a kind
   other than Team before the last team of the walked path (such a team
   has a parent whose parent exists, and the walk reports that nesting
   and stops), naming the path walked from that team and the repeated
   name; it reports no other cycle violation, so none for an acyclic
   hierarchy.  In particular every team whose chain and cycle consist
   of teams of kind Team is reported, so a cycle of k such teams is
   reported once from each of its k teams. *)
C5_OneViolationPerWalk ==
    SubteamOfRan =>
        LET starts == {t.name : t \in {u \in TeamSet :
                          ReachesCycle(u.name) /\ ~NestingFirst(u.name)}}
        IN /\ \A n \in starts :
                  SeqContains(errors,
                      CycleMsg(PathOf(n), Up(n, FirstRepeat(n) + 1)))
           /\ CycleMsgCount = Cardinality(starts)
           /\ Cycles = {} => CycleMsgCount = 0
           /\ \A t \in TeamSet :
                  ReachesCycle(t.name) /\ AllTeamChain(t.name) =>
                      SeqContains(errors,
                          CycleMsg(PathOf(t.name),
                                   Up(t.name, FirstRepeat(t.name) + 1)))
           /\ \A c \in Cycles :
                  (\A n \in c : TeamNamed(n).kind = "Team") =>
                      Cardinality({n \in c : SeqContains(errors,
                          CycleMsg(PathOf(n), Up(n, FirstRepeat(n) + 1)))})
                        = Cardinality(c)

(* C5 witness: a cycle of two teams, reported once from each of them *)
C5_Witness ==
    /\ SubteamOfRan
    /\ \E t \in TeamSet : OnCycle(t.name) /\ Cardinality(CycleOf(t.name)) = 2
    /\ Cardinality(Cycles) = 1
    /\ CycleMsgCount >= 2

(* a cycle of three teams of kind Team, reported three times *)
C5_WitnessLong ==
    /\ SubteamOfRan
    /\ \E t \in TeamSet : OnCycle(t.name) /\ Cardinality(CycleOf(t.name)) = 3
    /\ \A t \in TeamSet : t.kind = "Team"
    /\ CycleMsgCount = 3

(* a chain into a cycle of two teams, all of kind Team: reported from the
   two teams of the cycle and from the team below it *)
C5_WitnessLeadIn ==
    /\ SubteamOfRan
    /\ \E t \in TeamSet : OnCycle(t.name) /\ Cardinality(CycleOf(t.name)) = 2
    /\ \E t \in TeamSet : ~OnCycle(t.name) /\ ReachesCycle(t.name)
    /\ \A t \in TeamSet : t.kind = "Team"
    /\ CycleMsgCount = 3

(* a cycle of two teams only one of which is of kind Team: reported once,
   from the team of kind Team *)
C5_WitnessMixed ==
    /\ SubteamOfRan
    /\ \E c \in Cycles :
           /\ Cardinality(c) = 2
           /\ Cardinality({n \in c : TeamNamed(n).kind = "Team"}) = 1
    /\ Cardinality(Cycles) = 1
    /\ \A t \in TeamSet : ReachesCycle(t.name) => OnCycle(t.name)
    /\ CycleMsgCount = 1

(* a cycle of two or more teams none of which is of kind Team: not
   reported *)
C5_WitnessUnreported ==
    /\ SubteamOfRan
    /\ \E c \in Cycles :
           /\ Cardinality(c) >= 2
           /\ \A n \in c : TeamNamed(n).kind # "Team"
    /\ CycleMsgCount = 0

(* the walk from a team of kind Team meets a nesting at its second hop:
   the cycle above is not reported from that team *)
C5_WitnessNestingHop ==
    /\ SubteamOfRan
    /\ \E t \in TeamSet :
           /\ t.kind = "Team"
           /\ ReachesCycle(t.name)
           /\ FirstRepeat(t.name) >= 2
           /\ TeamNamed(Up(t.name, 1)).kind # "Team"
           /\ \A i \in 1..Len(errors) :
                  ~(IsCycleMsg(errors[i]) /\ IsInfix(<<58,32>> \o t.name \o <<32,61,62,32>>, errors[i]))
           /\ SeqContains(errors,
                  NestingMsg(TeamNamed(Up(t.name, 1)).kind, Up(t.name, 1),
                             Up(t.name, 2)))

(* the nesting violation of the team named n is among the errors *)
NestingReported(n) ==
    \E p \in {t.name : t \in TeamSet} :
        SeqContains(errors, NestingMsg(TeamNamed(n).kind, n, p))

(* the parent of t is a team, and that team has a parent *)
ParentIsSubteam(t) ==
    /\ t.subteam_of.some
    /\ Exists(t.subteam_of.v)
    /\ TeamNamed(t.subteam_of.v).subteam_of.some

(* the parent of t is a top-level team *)
ParentIsTopLevel(t) ==
    /\ t.subteam_of.some
    /\ Exists(t.subteam_of.v)
    /\ ~TeamNamed(t.subteam_of.v).subteam_of.some

(* C6: a project group whose parent has a parent is always
   reported as a subteam of a subteam, one whose parent is top-level
   never. *)
C6_NestingAlwaysReported ==
    SubteamOfRan =>
        \A t \in TeamSet : t.kind = "ProjectGroup" =>
            /\ ParentIsSubteam(t) => NestingReported(t.name)
            /\ ParentIsTopLevel(t) => ~NestingReported(t.name)

(* C6, apart from self-parents: a project group whose parent is another team that has a
   parent is always reported as a subteam of a subteam (a project group
   that is its own parent is reported as a cycle instead); one whose
   parent is top-level never. *)
C6_NestingReportedUnlessSelfParent ==
    SubteamOfRan =>
        \A t \in TeamSet : t.kind = "ProjectGroup" =>
            /\ (ParentIsSubteam(t) /\ t.subteam_of.v # t.name)
                   => NestingReported(t.name)
            /\ (ParentIsSubteam(t) /\ t.subteam_of.v = t.name)
                   => /\ ~NestingReported(t.name)
                      /\ SeqContains(errors, CycleMsg(<<t.name>>, t.name))
            /\ ParentIsTopLevel(t) => ~NestingReported(t.name)

(* C6 witness: a project group under a subteam, reported *)
C6_Witness ==
    /\ SubteamOfRan
    /\ \E t \in TeamSet :
           /\ t.kind = "ProjectGroup"
           /\ ParentIsSubteam(t)
           /\ t.subteam_of.v # t.name
           /\ NestingReported(t.name)

---------------------------------------------------------------------------
(* SpecPeople: runs of validate over data models of two people and the
   teams core, lang and alumni and the archived team old.  alice is a
   member of a choice of them, holds a choice of permissions directly, may
   be an individual contributor of the repo; core grants a choice of
   permissions; the members of lang may fail to resolve. *)

PermissionNames == <<<<112,101,114,102>>, <<99,114,97,116,101,114>>>>

PermissionChoices == {{}, {<<112,101,114,102>>}, {<<112,101,114,102>>, <<99,114,97,116,101,114>>}}

AliceTeamChoices ==
    {{}, {"old"}, {"core"}, {"alumni"}, {"core", "alumni"},
     {"core", "lang", "alumni"}, {"old", "alumni"}}

AliceIn(am, t) == IF t \in am THEN {<<97,108,105,99,101>>} ELSE {}

PeopleData(am, bobAlumnus, ap, cp, ic, langFails) ==
    MkData(
        <<[MkTeam(<<99,111,114,101>>, "Team", None, Ok({<<98,111,98>>} \cup AliceIn(am, "core")))
              EXCEPT !.permissions = Perms(cp)],
          MkTeam(<<108,97,110,103>>, "Team", None,
                 IF langFails THEN ErrSet(MembersError(<<108,97,110,103>>))
                 ELSE Ok(AliceIn(am, "lang"))),
          MkTeam(<<97,108,117,109,110,105>>, "MarkerTeam", None,
                 Ok(AliceIn(am, "alumni")
                    \cup (IF bobAlumnus THEN {<<98,111,98>>} ELSE {})))>>,
        <<MkTeam(<<111,108,100>>, "Team", None, Ok(AliceIn(am, "old")))>>,
        <<[MkPerson(<<97,108,105,99,101>>, 1) EXCEPT !.permissions = Perms(ap)],
          MkPerson(<<98,111,98>>, 2)>>,
        <<[org |-> <<114,117,115,116,45,108,97,110,103>>, name |-> <<114,117,115,116>>, teams |-> {},
           individuals |-> IF ic THEN {<<97,108,105,99,101>>} ELSE {}]>>,
        Ok(<<>>),
        PermissionNames)

PeopleDataSet ==
    {PeopleData(am, bobAlumnus, ap, cp, ic, langFails) :
        am \in AliceTeamChoices, bobAlumnus \in BOOLEAN,
        ap \in PermissionChoices, cp \in PermissionChoices,
        ic \in BOOLEAN, langFails \in BOOLEAN}

InitPeople ==
    \E d \in PeopleDataSet : Start(d, FALSE, {})

SpecPeople == InitPeople /\ [][Next]_vars

---------------------------------------------------------------------------
(* Properties of the checks on people *)

PersonSet == Range(data.people)

ArchivedSet == Range(data.archived_teams)

(* how many times the message m is among the errors *)
Count(m) == Cardinality({i \in 1..Len(errors) : errors[i] = m})

(* the team t, whose members resolve, refers to the person named p: as a
   member, as an alumnus or as an extra person of one of its lists *)
RefersTo(t, p) ==
    /\ t.members.ok
    /\ \/ p \in t.members.v
       \/ SeqContains(t.alumni, p)
       \/ \E i \in 1..Len(t.raw_lists) : SeqContains(t.raw_lists[i].extra_people, p)

(* p is a member of an archived team and no active team refers to p *)
OnlyInArchivedTeam(p) ==
    /\ \E t \in ArchivedSet : t.members.ok /\ p \in t.members.v
    /\ \A t \in TeamSet : ~RefersTo(t, p)

IndividualContributor(p) == \E i \in 1..Len(data.repos) : p \in data.repos[i].individuals

InactiveRan == SeqContains(executed, "validate_inactive_members")

(* C7: a person who is a member only of an archived team, holds
   no permission directly and is no individual contributor is reported as
   orphaned; a person holding a permission directly is not. *)
C7_ArchivedOnlyIsOrphan ==
    InactiveRan =>
        \A q \in PersonSet :
            /\ (/\ OnlyInArchivedTeam(q.github)
                /\ q.permissions.direct = {}
                /\ ~IndividualContributor(q.github))
                   => Count(OrphanMsg(q.github)) = 1
            /\ q.permissions.direct # {} => Count(OrphanMsg(q.github)) = 0

(* C7, archived teams counted: a person referred to by no team, active or archived, who
   holds no permission directly and is no individual contributor is
   reported as orphaned; a member of an archived team is not reported,
   and neither is a person holding a permission directly. *)
C7_UnreferencedIsOrphan ==
    InactiveRan =>
        \A q \in PersonSet :
            /\ (/\ \A t \in TeamSet \cup ArchivedSet : ~RefersTo(t, q.github)
                /\ q.permissions.direct = {}
                /\ ~IndividualContributor(q.github))
                   => Count(OrphanMsg(q.github)) = 1
            /\ OnlyInArchivedTeam(q.github) => Count(OrphanMsg(q.github)) = 0
            /\ q.permissions.direct # {} => Count(OrphanMsg(q.github)) = 0

(* C7 witness: an unreferenced person without permission is reported,
   in a run where the check ran *)
C7_Witness ==
    /\ InactiveRan
    /\ \E q \in PersonSet :
           /\ \A t \in TeamSet \cup ArchivedSet : ~RefersTo(t, q.github)
           /\ q.permissions.direct = {}
           /\ ~IndividualContributor(q.github)
           /\ Count(OrphanMsg(q.github)) = 1

DuplicateRan == SeqContains(executed, "validate_duplicate_permissions")

(* C8: for every team T, effective member P of T that is a person and
   available permission X, exactly one duplication message for (P, X, T)
   is among the errors if T grants X and P holds X directly, and none
   otherwise. *)
C8_OneMessagePerTriple ==
    DuplicateRan =>
        \A t \in {u \in TeamSet : u.members.ok} :
            \A q \in {r \in PersonSet : r.github \in t.members.v} :
                \A x \in Range(data.config.permissions) :
                    Count(DuplicatePermissionMsg(q.github, x, t.name))
                        = IF /\ x \in t.permissions.direct \cup t.permissions.indirect
                             /\ x \in q.permissions.direct
                          THEN 1 ELSE 0

(* C8 on the first permission only: the pair (P, T) is reported, once,
   exactly when T grants and P directly holds some available permission *)
C8_OneMessagePerMember ==
    DuplicateRan =>
        \A t \in {u \in TeamSet : u.members.ok} :
            \A q \in {r \in PersonSet : r.github \in t.members.v} :
                Cardinality({i \in 1..Len(errors) :
                    \E x \in Range(data.config.permissions) :
                        errors[i] = DuplicatePermissionMsg(q.github, x, t.name)})
                    = IF \E x \in Range(data.config.permissions) :
                             /\ x \in t.permissions.direct \cup t.permissions.indirect
                             /\ x \in q.permissions.direct
                      THEN 1 ELSE 0

AlumniRan == SeqContains(executed, "validate_alumni")

AlumniTeams == {t \in TeamSet : t.name = <<97,108,117,109,110,105>>}

(* p is an effective member of a team other than alumni *)
ActiveSomewhere(p) ==
    \E t \in TeamSet \ AlumniTeams : t.members.ok /\ p \in t.members.v

(* C10: every effective member of the alumni team who is an
   effective member of another team gets exactly one "includes active
   member" message, every other member of the alumni team none. *)
C10_OneMessagePerActiveAlumnus ==
    AlumniRan =>
        \A t \in {u \in AlumniTeams : u.members.ok} :
            \A p \in t.members.v :
                Count(AlumniActiveMsg(p)) = IF ActiveSomewhere(p) THEN 1 ELSE 0

(* C10, when every team resolves: the same, provided the effective members of every team
   resolve; if a team's members fail to resolve the check records that
   failure and reports no active alumnus. *)
C10_OneMessageWhenResolved ==
    AlumniRan =>
        \A t \in {u \in AlumniTeams : u.members.ok} :
            \A p \in t.members.v :
                Count(AlumniActiveMsg(p))
                    = IF (\A u \in TeamSet : u.members.ok) /\ ActiveSomewhere(p)
                      THEN 1 ELSE 0

(* C10 witness: an alumnus who is a member of two other teams, reported
   once *)
C10_Witness ==
    /\ AlumniRan
    /\ \E t \in AlumniTeams : \E p \in t.members.v :
           /\ Cardinality({u \in TeamSet \ AlumniTeams :
                              u.members.ok /\ p \in u.members.v}) = 2
           /\ Count(AlumniActiveMsg(p)) = 1

---------------------------------------------------------------------------
(* SpecZulip: runs of validate over data models whose chat group "core"
   holds alice and bob in a choice of the three member encodings and
   possibly a bare id, next to a group "lang"; the listing of the groups
   may fail. *)

ZulipEncodings(github, id) == {<<>>, <<ZWithId(github, id)>>, <<ZWithoutId(github)>>}

ZulipGroupChoices ==
    {a \o b \o c : a \in ZulipEncodings(<<97,108,105,99,101>>, 1),
                   b \in ZulipEncodings(<<98,111,98>>, 2),
                   c \in {<<>>, <<ZJustId(1)>>, <<ZJustId(2)>>}}

ZulipData(zgs) ==
    MkData(<<MkTeam(<<99,111,114,101>>, "Team", None, Ok({<<97,108,105,99,101>>, <<98,111,98>>}))>>,
           <<>>,
           <<MkPerson(<<97,108,105,99,101>>, 1), MkPerson(<<98,111,98>>, 2)>>,
           <<>>,
           zgs,
           <<>>)

ZulipDataSet ==
    {ZulipData(Err(<<116,101,97,109,32,96,99,111,114,101,96,32,104,97,115,32,97,110,32,105,110,118,97,108,105,100,32,90,117,108,105,112,32,103,114,111,117,112>>))}
    \cup {ZulipData(Ok(<<[name |-> <<99,111,114,101>>, members |-> ms],
                         [name |-> <<108,97,110,103>>, members |-> <<ZJustId(1)>>]>>)) :
              ms \in ZulipGroupChoices}

InitZulip ==
    \E d \in ZulipDataSet : Start(d, FALSE, {})

SpecZulip == InitZulip /\ [][Next]_vars

---------------------------------------------------------------------------
(* Properties of the chat directory check *)

(* validate_zulip_users ran and the listing of the users succeeded *)
ZulipUsersListed ==
    /\ SeqContains(executed, "validate_zulip_users")
    /\ zulip_res.some
    /\ zulip_res.v.ok

(* the chat groups of the data model; none when their listing fails *)
ChatGroups == IF data.zulip_groups.ok THEN Range(data.zulip_groups.v) ELSE {}

KnownIds == zulip_res.v.v

(* when a member counts as missing, stated on the data *)
IsMissing(m) ==
    \/ m.tag = "MemberWithoutId"
    \/ m.tag \in {"MemberWithId", "JustId"} /\ m.zulip_id \notin KnownIds

(* how a member is written in the message *)
WrittenAs(m) == IF m.tag = "JustId" THEN <<73,68,58,32>> \o DecStr(m.zulip_id) ELSE m.github

(* the sequences that list every element of S once *)
Orderings(S) ==
    {f \in [1..Cardinality(S) -> S] : \A i, j \in 1..Cardinality(S) : f[i] = f[j] => i = j}

(* the violation messages of the group g among the errors *)
ZulipMessagesOf(g) ==
    {i \in 1..Len(errors) :
        StartsWith(errors[i], ZulipMissingMsg(g.name, <<>>))}

(* C9: when the listing of the chat users succeeds, a group gets a
   violation message exactly when one of its members is missing, and the
   message lists exactly the missing members: every member without id,
   and every member with an id the directory does not know. *)
C9_MissingMembersListed ==
    ZulipUsersListed =>
        \A g \in ChatGroups :
            LET missing == {WrittenAs(g.members[i]) :
                               i \in {j \in 1..Len(g.members) : IsMissing(g.members[j])}}
            IN IF missing = {} THEN ZulipMessagesOf(g) = {}
               ELSE /\ Cardinality(ZulipMessagesOf(g)) = 1
                    /\ \E l \in Orderings(missing) :
                           SeqContains(errors, ZulipMissingMsg(g.name, l))

(* C9 witness: a group with a member without id, a member whose id the
   directory knows and a bare id it does not know: the message lists the
   first and the last *)
C9_Witness ==
    /\ ZulipUsersListed
    /\ KnownIds = {1}
    /\ \E g \in ChatGroups :
           /\ g.members = <<ZWithId(<<97,108,105,99,101>>, 1), ZWithoutId(<<98,111,98>>), ZJustId(2)>>
           /\ \E l \in Orderings({<<98,111,98>>, <<73,68,58,32,50>>}) :
                  SeqContains(errors, ZulipMissingMsg(g.name, l))

---------------------------------------------------------------------------
(* SpecNames: runs of validate over data models of two teams, each of any
   kind and named with or without a prefix, the exempt names included. *)

PrefixNames ==
    {<<119,103,45,102,111,111>>, <<98,97,114>>, <<119,103,45,108,101,97,100,115>>, <<112,114,111,106,101,99,116,45,120>>, <<112,114,111,106,101,99,116,45,103,114,111,117,112,45,108,101,97,100,115>>}

AllKinds == {"Team", "WorkingGroup", "ProjectGroup", "MarkerTeam"}

NamesData(n1, k1, n2, k2) ==
    MkData(<<MkTeam(n1, k1, None, Ok({})), MkTeam(n2, k2, None, Ok({}))>>,
           <<>>, <<>>, <<>>, Ok(<<>>), <<>>)

NamesDataSet ==
    {NamesData(c[1], c[2], c[3], c[4]) :
        c \in {x \in PrefixNames \X AllKinds \X PrefixNames
                         \X {"WorkingGroup", "ProjectGroup"} : x[1] # x[3]}}

InitNames ==
    \E d \in NamesDataSet, sk \in {{}, {"validate_name_prefixes"}} :
        Start(d, FALSE, sk)

SpecNames == InitNames /\ [][Next]_vars

---------------------------------------------------------------------------
(* Properties of the naming-prefix check *)

NamePrefixesRan == SeqContains(executed, "validate_name_prefixes")

(* the message of a team of the kind that lacks its prefix *)
LacksPrefixMsg(t, prefix) ==
    KindDisplay(t.kind) \o <<32,96>> \o t.name \o <<96,39,115,32,110,97,109,101,32,100,111,101,115,110,39,116,32,115,116,97,114,116,32,119,105,116,104,32,96>>
    \o prefix \o <<96>>

(* the message of a team of another kind that carries the prefix *)
CarriesPrefixMsg(t, kind, prefix) ==
    KindDisplay(t.kind) \o <<32,96>> \o t.name \o <<96,32,115,101,101,109,115,32,108,105,107,101,32,97,32>>
    \o KindDisplay(kind) \o <<32,40,115,105,110,99,101,32,105,116,32,104,97,115,32,116,104,101,32,96>> \o prefix \o <<96,32,112,114,101,102,105,120,41>>

(* the naming-prefix violations of the team t among the errors *)
PrefixMessagesOf(t) ==
    {i \in 1..Len(errors) :
        \/ IsInfix(<<32,96>> \o t.name \o <<96,39,115,32,110,97,109,101,32,100,111,101,115,110,39,116,32,115,116,97,114,116,32,119,105,116,104,32,96>>, errors[i])
        \/ IsInfix(<<32,96>> \o t.name \o <<96,32,115,101,101,109,115,32,108,105,107,101,32,97,32>>, errors[i])}

(* t breaks the rule of the kind: of that kind without the prefix, or of
   another kind with it, and not exempt from that rule *)
BreaksRule(t, kind, prefix, exempt) ==
    /\ t.name # exempt
    /\ \/ t.kind = kind /\ ~StartsWith(t.name, prefix)
       \/ t.kind # kind /\ StartsWith(t.name, prefix)

BreaksWg(t) == BreaksRule(t, "WorkingGroup", <<119,103,45>>, <<119,103,45,108,101,97,100,115>>)

BreaksProject(t) ==
    BreaksRule(t, "ProjectGroup", <<112,114,111,106,101,99,116,45>>, <<112,114,111,106,101,99,116,45,103,114,111,117,112,45,108,101,97,100,115>>)

(* C11: the naming-prefix check reports exactly one violation for a team
   that breaks the working-group rule or the project-group rule, each rule
   with its own exemption (wg-leads, project-group-leads), and none for
   any other team, so none for a team that carries exactly the prefix of
   its kind; the violation is that of the rule the team breaks. *)
C11_OnePrefixViolation ==
    NamePrefixesRan =>
        \A t \in Range(data.teams) :
            /\ Cardinality(PrefixMessagesOf(t))
                   = IF BreaksWg(t) \/ BreaksProject(t) THEN 1 ELSE 0
            /\ (BreaksWg(t) /\ t.kind = "WorkingGroup")
                   => SeqContains(errors, LacksPrefixMsg(t, <<119,103,45>>))
            /\ (BreaksWg(t) /\ t.kind # "WorkingGroup")
                   => SeqContains(errors,
                          CarriesPrefixMsg(t, "WorkingGroup", <<119,103,45>>))
            /\ (~BreaksWg(t) /\ BreaksProject(t) /\ t.kind = "ProjectGroup")
                   => SeqContains(errors, LacksPrefixMsg(t, <<112,114,111,106,101,99,116,45>>))
            /\ (~BreaksWg(t) /\ BreaksProject(t) /\ t.kind # "ProjectGroup")
                   => SeqContains(errors,
                          CarriesPrefixMsg(t, "ProjectGroup", <<112,114,111,106,101,99,116,45>>))

(* C11 witness: the working groups wg-foo and bar: one violation, for
   bar *)
C11_Witness ==
    /\ NamePrefixesRan
    /\ \E t, u \in Range(data.teams) :
           /\ t.name = <<119,103,45,102,111,111>> /\ t.kind = "WorkingGroup"
           /\ u.name = <<98,97,114>> /\ u.kind = "WorkingGroup"
           /\ PrefixMessagesOf(t) = {}
           /\ Cardinality(PrefixMessagesOf(u)) = 1
           /\ SeqContains(errors, LacksPrefixMsg(u, <<119,103,45>>))

(* C11 second witness: the exemptions are those of one rule each: a
   working group named project-group-leads is reported for lacking wg-,
   a project group named wg-leads for lacking project- and for nothing
   else *)
C11_WitnessExempt ==
    /\ NamePrefixesRan
    /\ \E t, u \in Range(data.teams) :
           /\ t.name = <<112,114,111,106,101,99,116,45,103,114,111,117,112,45,108,101,97,100,115>> /\ t.kind = "WorkingGroup"
           /\ u.name = <<119,103,45,108,101,97,100,115>> /\ u.kind = "ProjectGroup"
           /\ SeqContains(errors, LacksPrefixMsg(t, <<119,103,45>>))
           /\ SeqContains(errors, LacksPrefixMsg(u, <<112,114,111,106,101,99,116,45>>))
           /\ Cardinality(PrefixMessagesOf(u)) = 1

---------------------------------------------------------------------------
(* Properties of the checks as callees of the runner *)

(* the check called last *)
LastExecuted == executed[Len(executed)]

(* C12: no check ever aborts the run: every check returns to validate,
   whatever the data model and the adapters' results, so that the
   messages collected before it are sorted, logged and counted. *)
C12_NoCheckPanics == pc # "panicked"

(* C12 on the checks other than the chat-id completeness check and the
   username check: a run is only ever unwound out of one of these two *)
C12_PanicsOnlyInTwoChecks ==
    pc = "panicked" =>
        /\ executed # <<>>
        /\ LastExecuted \in {"validate_discord_team_members_have_discord_ids",
                             "validate_github_usernames"}
        /\ result.kind = "None"
        /\ logged = <<>>

---------------------------------------------------------------------------
(* SpecResolve: runs of validate over data models in which the effective
   members of core, of lang or of both may fail to resolve.  lang is led
   by alice or bob and has the members bob and, possibly, ghost, who is
   not a person; bob is a member of the alumni team as well. *)

ResolveData(coreFails, langFails, lead, ghost) ==
    MkData(
        <<MkTeam(<<99,111,114,101>>, "Team", None,
                 IF coreFails THEN ErrSet(MembersError(<<99,111,114,101>>))
                 ELSE Ok({<<97,108,105,99,101>>, <<98,111,98>>})),
          [MkTeam(<<108,97,110,103>>, "Team", None,
                  IF langFails THEN ErrSet(MembersError(<<108,97,110,103>>))
                  ELSE Ok({<<98,111,98>>} \cup (IF ghost THEN {<<103,104,111,115,116>>} ELSE {})))
              EXCEPT !.leads = {lead}],
          MkTeam(<<97,108,117,109,110,105>>, "MarkerTeam", None, Ok({<<98,111,98>>}))>>,
        <<>>,
        <<MkPerson(<<97,108,105,99,101>>, 1), MkPerson(<<98,111,98>>, 2)>>,
        <<>>,
        Ok(<<>>),
        <<>>)

ResolveDataSet ==
    {ResolveData(coreFails, langFails, lead, ghost) :
        coreFails \in BOOLEAN, langFails \in BOOLEAN,
        lead \in {<<97,108,105,99,101>>, <<98,111,98>>}, ghost \in BOOLEAN}

InitResolve ==
    \E d \in ResolveDataSet,
       sk \in {{}, {"validate_team_leads", "validate_alumni"}} :
        Start(d, FALSE, sk)

SpecResolve == InitResolve /\ [][Next]_vars

---------------------------------------------------------------------------
(* Properties of the checks when a membership fails to resolve *)

TeamLeadsRan == SeqContains(executed, "validate_team_leads")

TeamMembersRan == SeqContains(executed, "validate_team_members")

(* the teams whose members resolve, and those whose members do not *)
Resolved == {t \in Range(data.teams) : t.members.ok}

Unresolved == {t \in Range(data.teams) : ~t.members.ok}

LeadMsg(lead, t) ==
    <<96>> \o lead \o <<96,32,108,101,97,100,115,32,116,101,97,109,32,96>> \o t.name \o <<96,44,32,98,117,116,32,105,115,32,110,111,116,32,97,32,109,101,109,98,101,114,32,111,102,32,105,116>>

NoPersonMsg(m, t) ==
    <<112,101,114,115,111,110,32,96>> \o m \o <<96,32,105,115,32,109,101,109,98,101,114,32,111,102,32,116,101,97,109,32,96>> \o t.name \o <<96,32,98,117,116,32,100,111,101,115,110,39,116,32,101,120,105,115,116>>

IsPerson(m) == \E i \in 1..Len(data.people) : data.people[i].github = m

(* the leadership check and the membership check turn the failure of a
   team into one message and go on to the other teams *)
PerTeamChecksContinue ==
    /\ TeamLeadsRan =>
           /\ \A t \in Unresolved : SeqContains(errors, t.members.e)
           /\ \A t \in Resolved : \A lead \in t.leads \ t.members.v :
                  SeqContains(errors, LeadMsg(lead, t))
    /\ TeamMembersRan =>
           /\ \A t \in Unresolved : SeqContains(errors, t.members.e)
           /\ \A t \in Resolved : \A m \in {x \in t.members.v : ~IsPerson(x)} :
                  SeqContains(errors, NoPersonMsg(m, t))
    /\ (pc = "done" /\ (TeamLeadsRan \/ TeamMembersRan)) =>
           \A t \in Unresolved :
               Cardinality({i \in 1..Len(errors) : errors[i] = t.members.e}) = 1

(* the alumni check goes on to the members of the alumni team *)
AlumniCheckContinues ==
    SeqContains(executed, "validate_alumni") =>
        \A t \in {u \in Resolved : u.name = <<97,108,117,109,110,105>>} :
            \A p \in t.members.v :
                (\E u \in Resolved : u.name # <<97,108,117,109,110,105>> /\ p \in u.members.v)
                    => SeqContains(errors, AlumniActiveMsg(p))

(* C13: when the members of a team fail to resolve inside a check, the
   failure becomes one message and the check goes on with the remaining
   items: the violations of the other teams are reported all the same. *)
C13_FailureNeverStopsCheck == PerTeamChecksContinue /\ AlumniCheckContinues

(* C13 on the leadership and membership checks, where it holds *)
C13_PerTeamChecksContinue == PerTeamChecksContinue

---------------------------------------------------------------------------
(* SpecGithub: runs of validate over data models in which core and lang
   map to code-host teams, in an allowed organization or not, possibly the
   same one; and a repo, in an allowed organization or not, grants access
   to code-host teams and to individuals that exist or do not, alone or
   before a second repo with two unknown teams and two unknown
   individuals. *)

Gh(org, name) == [org |-> org, name |-> name]

CoreMappings ==
    {<<>>, <<Gh(<<114,117,115,116,45,108,97,110,103>>, <<99,111,114,101>>)>>, <<Gh(<<101,118,105,108>>, <<99,111,114,101>>)>>,
     <<Gh(<<114,117,115,116,45,108,97,110,103>>, <<99,111,114,101>>), Gh(<<114,117,115,116,45,108,97,110,103>>, <<99,111,114,101>>)>>}

LangMappings ==
    {<<>>, <<Gh(<<114,117,115,116,45,108,97,110,103>>, <<99,111,114,101>>)>>, <<Gh(<<101,118,105,108>>, <<99,111,114,101>>)>>,
     <<Gh(<<114,117,115,116,45,108,97,110,103>>, <<108,97,110,103>>)>>}

RepoChoices ==
    {[org |-> o, name |-> <<114,117,115,116>>, teams |-> ts, individuals |-> ps] :
        o \in {<<114,117,115,116,45,108,97,110,103>>, <<101,118,105,108>>},
        ts \in {{}, {<<99,111,114,101>>}, {<<110,111,112,101>>}, {<<99,111,114,101>>, <<110,111,112,101>>}},
        ps \in {{}, {<<97,108,105,99,101>>}, {<<103,104,111,115,116>>}}}

GithubData(cm, lm, rs) ==
    MkData(
        <<[MkTeam(<<99,111,114,101>>, "Team", None, Ok({<<97,108,105,99,101>>}))
              EXCEPT !.github_teams = cm],
          [MkTeam(<<108,97,110,103>>, "Team", None, Ok({<<97,108,105,99,101>>}))
              EXCEPT !.github_teams = lm]>>,
        <<>>,
        <<MkPerson(<<97,108,105,99,101>>, 1)>>,
        rs,
        Ok(<<>>),
        <<>>)

GithubDataSet ==
    LET second == [org |-> <<114,117,115,116,45,108,97,110,103>>, name |-> <<99,97,114,103,111>>,
                   teams |-> {<<110,111,112,101>>, <<110,97,100,97>>},
                   individuals |-> {<<103,104,111,115,116>>, <<103,104,111,117,108>>}]
    IN {GithubData(cm, lm, <<r>>) :
           cm \in CoreMappings, lm \in LangMappings, r \in RepoChoices}
       \cup {GithubData(<<Gh(<<114,117,115,116,45,108,97,110,103>>, <<110,111,112,101>>)>>, lm, <<r, second>>) :
                lm \in {<<>>, <<Gh(<<114,117,115,116,45,108,97,110,103>>, <<110,97,100,97>>)>>}, r \in RepoChoices}

InitGithub ==
    \E d \in GithubDataSet : Start(d, FALSE, {})

SpecGithub == InitGithub /\ [][Next]_vars

---------------------------------------------------------------------------
(* Properties of the repo access check *)

ReposRan == SeqContains(executed, "validate_repos")

AllowedOrgs == data.config.allowed_github_orgs

(* the places a code-host team is mapped at: <<team index, mapping index>> *)
MappingPlaces ==
    UNION {{<<i, j>> : j \in 1..Len(data.teams[i].github_teams)} :
              i \in 1..Len(data.teams)}

MappingAt(pl) == data.teams[pl[1]].github_teams[pl[2]]

(* the (org, team-name) pairs the teams map to *)
ConfiguredPairs == {<<MappingAt(pl).org, MappingAt(pl).name>> : pl \in MappingPlaces}

(* the violations of the repo r, rule by rule *)
RepoViolations(r) ==
    (IF r.org \notin AllowedOrgs THEN {RepoOrgMsg(r)} ELSE {})
    \cup {RepoTeamMsg(r, n) : n \in {x \in r.teams : <<r.org, x>> \notin ConfiguredPairs}}
    \cup {RepoPersonMsg(r, p) : p \in {x \in r.individuals : ~IsPerson(x)}}

(* C14: the repo access check reports every violation of every repo: the
   organization that is not allowed, every team grant that is no
   configured code-host team and every individual grant that names no
   person, also when a repo has several of them. *)
C14_EveryRepoViolationReported ==
    ReposRan =>
        \A r \in Range(data.repos) :
            \A m \in RepoViolations(r) : SeqContains(errors, m)

(* C14 on the first violation: a repo with a violation is reported once,
   with one of its violations (the organization before the teams, the
   teams before the individuals), and a repo without violation is not
   reported *)
C14_FirstViolationOnly ==
    ReposRan =>
        \A r \in Range(data.repos) :
            LET said == {m \in RepoViolations(r) : SeqContains(errors, m)}
            IN /\ Cardinality(said) = IF RepoViolations(r) = {} THEN 0 ELSE 1
               /\ r.org \notin AllowedOrgs => said = {RepoOrgMsg(r)}
               /\ \A p \in r.individuals : RepoPersonMsg(r, p) \in said =>
                      \A n \in r.teams : RepoTeamMsg(r, n) \notin RepoViolations(r)

---------------------------------------------------------------------------
(* Properties of the code-host team check *)

GithubTeamsRan == SeqContains(executed, "validate_github_teams")

(* how many times the pair is mapped, over all teams *)
Occurrences(pair) ==
    Cardinality({pl \in MappingPlaces :
                    <<MappingAt(pl).org, MappingAt(pl).name>> = pair})

(* the "defined for both" violations of the pair among the errors *)
BothMessagesOf(pair) ==
    {i \in 1..Len(errors) :
        StartsWith(errors[i], <<71,105,116,72,117,98,32,116,101,97,109,32,96>> \o pair[1] \o <<47>> \o pair[2]
                              \o <<96,32,105,115,32,100,101,102,105,110,101,100,32,102,111,114,32,98,111,116,104,32,116,104,101,32,96>>)}

(* C15: a code-host (org, team-name) pair mapped twice, by two teams or
   by one, gets a "defined for both" violation, whether its organization
   is allowed or not; a pair mapped once gets none. *)
C15_DuplicatePairReported ==
    GithubTeamsRan =>
        \A pair \in ConfiguredPairs :
            (Occurrences(pair) >= 2) <=> (BothMessagesOf(pair) # {})

(* C15 in the allowed organizations: a pair of an allowed organization
   gets a violation exactly when it is mapped twice; a pair of another
   organization gets none, each of its mappings being reported for the
   organization instead *)
C15_DuplicateInAllowedOrg ==
    GithubTeamsRan =>
        \A pair \in ConfiguredPairs :
            IF pair[1] \in AllowedOrgs
            THEN (Occurrences(pair) >= 2) <=> (BothMessagesOf(pair) # {})
            ELSE /\ BothMessagesOf(pair) = {}
                 /\ \A pl \in MappingPlaces : MappingAt(pl).org = pair[1] =>
                        SeqContains(errors,
                            GithubOrgMsg(pair[1], data.teams[pl[1]].name))

---------------------------------------------------------------------------
(* SpecWalk: the closure of validate_subteam_of on one team, an iteration
   of its `while let Some(parent) = team.subteam_of()` loop at a time, over
   every hierarchy of HierDataSet and of ChainDataSet and every start team. *)

(* variant: the iteration without visited.push(team.name()) *)
WalkStep_NoPush ==
    /\ walk.status = "walking"
    /\ LET t == team(data, walk.team).v
       IN IF ~t.subteam_of.some
          THEN walk' = [walk EXCEPT !.status = "returned"]
          ELSE LET parent == t.subteam_of.v
                   vis == walk.visited
               IN IF SeqContains(vis, parent)
                  THEN walk' = [walk EXCEPT !.status = "returned",
                                            !.r = Err(CycleMsg(vis, parent))]
                  ELSE IF ~team(data, parent).some
                  THEN walk' = [walk EXCEPT !.status = "returned",
                                            !.r = Err(DanglingMsg(t.name, parent))]
                  ELSE IF t.kind # "Team" /\ team(data, parent).v.subteam_of.some
                  THEN walk' = [walk EXCEPT !.status = "returned",
                       !.r = Err(NestingMsg(t.kind, t.name, team(data, parent).v.name))]
                  ELSE walk' = [walk EXCEPT !.team = parent]
    /\ UNCHANGED <<data, strict, skip, pc, idx, errors, executed,
                   github_auth, zulip_auth, github_res, zulip_res, logged, result>>

(* lines 166-194: one evaluation of the loop condition and, if the team
   has a parent, one run of the loop body *)
WalkStep ==
    /\ walk.status = "walking"
    /\ LET t == team(data, walk.team).v
       IN IF ~t.subteam_of.some
          THEN walk' = [walk EXCEPT !.status = "returned"]
          ELSE LET parent == t.subteam_of.v
                   vis == Append(walk.visited, t.name)
               IN IF SeqContains(vis, parent)
                  THEN walk' = [walk EXCEPT !.visited = vis, !.status = "returned",
                                            !.r = Err(CycleMsg(vis, parent))]
                  ELSE IF ~team(data, parent).some
                  THEN walk' = [walk EXCEPT !.visited = vis, !.status = "returned",
                                            !.r = Err(DanglingMsg(t.name, parent))]
                  ELSE IF t.kind # "Team" /\ team(data, parent).v.subteam_of.some
                  THEN walk' = [walk EXCEPT !.visited = vis, !.status = "returned",
                       !.r = Err(NestingMsg(t.kind, t.name, team(data, parent).v.name))]
                  ELSE walk' = [walk EXCEPT !.visited = vis, !.team = parent]
    /\ UNCHANGED <<data, strict, skip, pc, idx, errors, executed,
                   github_auth, zulip_auth, github_res, zulip_res, logged, result>>

(* the closure is entered with the team `start` and an empty path, in a
   run that has called validate_name_prefixes; wrapper has run the closure
   on the teams before `start` and pushed the error of each failed walk
   (line 733) *)
InitWalk ==
    \E d \in HierDataSet \cup ChainDataSet, i \in 1..Len(ChainNames) :
        /\ i <= Len(d.teams)
        /\ data = d
        /\ strict = FALSE
        /\ skip = {}
        /\ pc = "local"
        /\ idx = 2
        /\ errors = validate_name_prefixes(d).errs
                    \o wrapper(SubSeq(teams(d), 1, i - 1),
                               LAMBDA t : Bail(subteam_walk(d, t, <<>>)))
        /\ executed = <<"validate_name_prefixes">>
        /\ github_auth = "unprobed"
        /\ zulip_auth = "unprobed"
        /\ github_res = None
        /\ zulip_res = None
        /\ logged = <<>>
        /\ result = [kind |-> "None", error |-> <<>>]
        /\ walk = [start |-> d.teams[i].name, team |-> d.teams[i].name,
                   visited |-> <<>>, status |-> "walking", r |-> Ok(<<>>)]

(* the loop body neither blocks nor yields: an iteration that can run
   does run *)
SpecWalk == InitWalk /\ [][WalkStep]_vars /\ WF_vars(WalkStep)

---------------------------------------------------------------------------
(* Properties of the parent walk *)

NoRepeat(s) == \A i, j \in 1..Len(s) : s[i] = s[j] => i = j

(* an iteration appends a name that is not yet on the path, or ends the
   walk *)
WalkProgress ==
    walk.status = "walking" =>
        \/ walk'.status = "returned"
        \/ /\ Len(walk'.visited) = Len(walk.visited) + 1
           /\ SubSeq(walk'.visited, 1, Len(walk.visited)) = walk.visited
           /\ ~SeqContains(walk.visited, walk'.visited[Len(walk'.visited)])

(* C16: the parent walk terminates from every start team of every
   hierarchy: every iteration either appends a team name that is not yet
   on the visited path or ends the walk, and the walk does return. *)
C16_WalkTerminates ==
    /\ [][WalkProgress]_vars
    /\ <>(walk.status = "returned")

(* C16, the measure: the path never repeats a name, so it is never longer
   than the number of teams; and the walk returns what the check reports
   for the start team *)
C16_PathBounded ==
    /\ NoRepeat(walk.visited)
    /\ Len(walk.visited) <= Len(data.teams)
    /\ walk.status = "returned" =>
           walk.r = subteam_walk(data, team(data, walk.start).v, <<>>)

(* C16 witness: a walk that started outside a cycle, was led into it and
   returned the cycle violation *)
C16_Witness ==
    /\ walk.status = "returned"
    /\ ~OnCycle(walk.start)
    /\ ReachesCycle(walk.start)
    /\ Len(walk.visited) >= 2
    /\ ~walk.r.ok
    /\ IsCycleMsg(walk.r.e)

(* C16 second witness: a walk ended by a parent that does not exist *)
C16_WitnessDangling ==
    /\ walk.status = "returned"
    /\ Len(walk.visited) >= 2
    /\ walk.r = Err(DanglingMsg(walk.team, <<103,104,111,115,116>>))

=============================================================================
